---------------------------- MODULE Spec2Model ----------------------------
(***************************************************************************)
(* Rules engine of first_rat_local: GameState.apply and what it calls      *)
(* (ActionValidator, EffectResolver, the endgame detector and the          *)
(* invariant checker), modelled as a state machine over the fields of      *)
(* GameState.                                                              *)
(*                                                                         *)
(* Conventions.  Python None is the string "None".  A dict with enum keys  *)
(* is a function over the enum; Inventory.res maps a resource that is not  *)
(* a key of the dict to 0 (the code never stores a key with value 0:       *)
(* Inventory.add ignores amount <= 0 and Inventory.remove deletes a key    *)
(* that reaches 0).  A cost or price dict is the sequence of its items in  *)
(* insertion order.  Lists are sequences; board indices are 0-based as in  *)
(* the code, so Board.spaces is a function over 0..len-1.  Event           *)
(* timestamps (wall-clock time) are not modelled.                          *)
(***************************************************************************)
EXTENDS Integers, Sequences, FiniteSets, TLC

VARIABLES
    board,            \* GameState.board
    players,          \* GameState.players (list of Player)
    rocket,           \* GameState.rocket.parts
    current_player,   \* GameState.current_player (0-based index)
    round,            \* GameState.round
    history,          \* GameState.history
    game_over,        \* GameState.game_over
    winner_ids,       \* GameState.winner_ids
    config,           \* the Config handed to new_game and to every apply
    raised,           \* exception class the last apply call ended with
    returned          \* list of events the last apply call returned

gameVars == <<board, players, rocket, current_player, round, history,
              game_over, winner_ids>>
vars == <<board, players, rocket, current_player, round, history,
          game_over, winner_ids, config, raised, returned>>

None == "None"

(***************************************************************************)
(* Bounds of the exploration: the number of history entries up to which a  *)
(* state-changing apply is explored, per specification.                    *)
(***************************************************************************)
MaxHistory == 3
MaxHistoryEnd == 4
MaxHistoryTrack == 3
MaxHistoryTampered == 2

----------------------------------------------------------------------------
(* enums.py *)

Color == {"GREEN", "YELLOW", "RED", "BLUE"}
Resource == {"CHEESE", "TIN_CAN", "SODA", "LIGHTBULB", "BOTTLECAP"}
SpaceKind == {"RESOURCE", "SHOP_MOLE", "SHOP_FROG", "SHOP_CROW",
              "LIGHTBULB_TRACK", "SHORTCUT", "HAZARD", "START", "LAUNCH_PAD"}
ActionType == {"MOVE", "BUY", "STEAL", "BUILD_ROCKET", "DONATE_CHEESE",
               "END_TURN"}
RocketPart == {"NOSE", "TANK", "ENGINE", "FIN_A", "FIN_B"}

----------------------------------------------------------------------------
(* Small helpers over sequences and functions. *)

Range(f) == {f[x] : x \in DOMAIN f}

RECURSIVE SumSeq(_)
SumSeq(s) == IF s = <<>> THEN 0 ELSE Head(s) + SumSeq(Tail(s))

RECURSIVE SumOver(_, _)
SumOver(f, S) ==
    IF S = {} THEN 0
    ELSE LET x == CHOOSE y \in S : TRUE IN f[x] + SumOver(f, S \ {x})

SetMax(S) == CHOOSE x \in S : \A y \in S : y <= x

SelectIdx(s, Test(_)) == {i \in 1..Len(s) : Test(s[i])}

\* index of the first element of s satisfying Test, 0 when there is none
FirstIdx(s, Test(_)) ==
    LET I == SelectIdx(s, Test)
    IN  IF I = {} THEN 0 ELSE CHOOSE i \in I : \A j \in I : i <= j

----------------------------------------------------------------------------
(* config.py: Config.default, with the board layout as a parameter. *)

Space(index, color, kind, payload) ==
    [space_id |-> index, index |-> index, color |-> color, kind |-> kind,
     payload |-> payload]

NoPayload == [resource |-> None, amount |-> 1, track_gain |-> 1]
ResourcePayload(res, n) == [resource |-> res, amount |-> n, track_gain |-> 1]
TrackPayload(n) == [resource |-> None, amount |-> 1, track_gain |-> n]

shop_prices ==
    [k \in {"SHOP_MOLE", "SHOP_FROG", "SHOP_CROW"} |->
        CASE k = "SHOP_MOLE" -> << <<"TIN_CAN", 2>> >>
          [] k = "SHOP_FROG" -> << <<"SODA", 2>> >>
          [] k = "SHOP_CROW" -> << <<"CHEESE", 2>> >>]

steal_rules ==
    [k \in {"SHOP_MOLE", "SHOP_FROG", "SHOP_CROW"} |->
        CASE k = "SHOP_MOLE" -> [gain |-> "capacity", punishment |-> "send_home"]
          [] k = "SHOP_FROG" -> [gain |-> "x2_active", punishment |-> "send_home"]
          [] k = "SHOP_CROW" -> [gain |-> "bottlecap", punishment |-> "send_home"]]

rocket_part_costs ==
    [p \in RocketPart |->
        CASE p = "NOSE"   -> << <<"TIN_CAN", 3>>, <<"CHEESE", 1>> >>
          [] p = "TANK"   -> << <<"TIN_CAN", 2>>, <<"SODA", 2>> >>
          [] p = "ENGINE" -> << <<"TIN_CAN", 4>>, <<"LIGHTBULB", 1>> >>
          [] p = "FIN_A"  -> << <<"TIN_CAN", 1>>, <<"SODA", 1>> >>
          [] p = "FIN_B"  -> << <<"TIN_CAN", 1>>, <<"CHEESE", 2>> >>]

rocket_part_scores ==
    [p \in RocketPart |->
        CASE p = "NOSE" -> 4 [] p = "TANK" -> 3 [] p = "ENGINE" -> 5
          [] p = "FIN_A" -> 2 [] p = "FIN_B" -> 3]

donate_rewards == [a \in 1..4 |-> CASE a = 1 -> 1 [] a = 2 -> 3
                                    [] a = 3 -> 6 [] a = 4 -> 10]

lightbulb_track_rewards ==
    [l \in 1..5 |->
        IF l = 4 THEN [type |-> "passive", points |-> 0]
        ELSE [type |-> "immediate", points |-> l]]

scoring_rules ==
    [rocket_parts |-> TRUE, bottlecaps |-> 1, donated_cheese |-> TRUE,
     lightbulb_track |-> TRUE, remaining_resources |-> FALSE]

DefaultConfig(layout, triggers) ==
    [board_layout |-> layout,
     start_index |-> 0,
     launch_index |-> Len(layout) - 1,
     starting_rats |-> 2,
     max_rats |-> 4,
     starting_inventory_capacity |-> 3,
     shop_prices |-> shop_prices,
     steal_rules |-> steal_rules,
     rocket_part_costs |-> rocket_part_costs,
     rocket_part_scores |-> rocket_part_scores,
     donate_rewards |-> donate_rewards,
     lightbulb_track_rewards |-> lightbulb_track_rewards,
     endgame_triggers |-> triggers,
     scoring_rules |-> scoring_rules]

BothTriggers == [fourth_rat_on_rocket |-> TRUE, eighth_scoring_marker |-> TRUE]
NoFourthRatTrigger ==
    [fourth_rat_on_rocket |-> FALSE, eighth_scoring_marker |-> TRUE]

(***************************************************************************)
(* Board layouts handed to new_game through Config.board_layout.  The      *)
(* default layout has 60 spaces; the layouts explored here are short ones  *)
(* built from the same kinds of spaces, so that shops, resources and the   *)
(* launch pad are all within a few moves of the start.                     *)
(***************************************************************************)
WorkshopLayout ==
    << Space(0, "GREEN", "START", NoPayload),
       Space(1, "RED", "RESOURCE", ResourcePayload("TIN_CAN", 2)),
       Space(2, "RED", "RESOURCE", ResourcePayload("SODA", 1)),
       Space(3, "BLUE", "SHOP_MOLE", NoPayload),
       Space(4, "YELLOW", "RESOURCE", ResourcePayload("CHEESE", 2)),
       Space(5, "BLUE", "LAUNCH_PAD", NoPayload) >>

\* the board of tests/test_endgame_integration.py
LaunchLayout ==
    << Space(0, "GREEN", "START", NoPayload),
       Space(1, "YELLOW", "RESOURCE", ResourcePayload("CHEESE", 1)),
       Space(2, "BLUE", "LAUNCH_PAD", NoPayload) >>

\* a board of lightbulb-track spaces with gains of 1, 2 and 3
TrackLayout ==
    << Space(0, "GREEN", "START", NoPayload),
       Space(1, "YELLOW", "LIGHTBULB_TRACK", TrackPayload(1)),
       Space(2, "YELLOW", "LIGHTBULB_TRACK", TrackPayload(2)),
       Space(3, "YELLOW", "LIGHTBULB_TRACK", TrackPayload(1)),
       Space(4, "YELLOW", "LIGHTBULB_TRACK", TrackPayload(3)),
       Space(5, "RED", "RESOURCE", ResourcePayload("CHEESE", 1)),
       Space(6, "BLUE", "LAUNCH_PAD", NoPayload) >>

\* a board with the three shops and a space of each shop's currency
MarketLayout ==
    << Space(0, "GREEN", "START", NoPayload),
       Space(1, "RED", "RESOURCE", ResourcePayload("SODA", 2)),
       Space(2, "BLUE", "SHOP_FROG", NoPayload),
       Space(3, "RED", "RESOURCE", ResourcePayload("CHEESE", 2)),
       Space(4, "BLUE", "SHOP_CROW", NoPayload),
       Space(5, "YELLOW", "RESOURCE", ResourcePayload("TIN_CAN", 1)),
       Space(6, "BLUE", "SHOP_MOLE", NoPayload),
       Space(7, "GREEN", "LAUNCH_PAD", NoPayload) >>

\* a board on which every part of the final score can be earned
FinalLayout ==
    << Space(0, "GREEN", "START", NoPayload),
       Space(1, "YELLOW", "RESOURCE", ResourcePayload("CHEESE", 2)),
       Space(2, "BLUE", "SHOP_CROW", NoPayload),
       Space(3, "GREEN", "LIGHTBULB_TRACK", TrackPayload(1)),
       Space(4, "RED", "RESOURCE", ResourcePayload("TIN_CAN", 1)),
       Space(5, "RED", "RESOURCE", ResourcePayload("SODA", 1)),
       Space(6, "BLUE", "LAUNCH_PAD", NoPayload) >>

\* a board with the resources of all five rocket parts and the mole shop
YardLayout ==
    << Space(0, "GREEN", "START", NoPayload),
       Space(1, "BLUE", "SHOP_MOLE", NoPayload),
       Space(2, "RED", "RESOURCE", ResourcePayload("TIN_CAN", 2)),
       Space(3, "RED", "RESOURCE", ResourcePayload("TIN_CAN", 2)),
       Space(4, "YELLOW", "RESOURCE", ResourcePayload("CHEESE", 2)),
       Space(5, "RED", "RESOURCE", ResourcePayload("SODA", 2)),
       Space(6, "GREEN", "RESOURCE", ResourcePayload("LIGHTBULB", 1)),
       Space(7, "BLUE", "LAUNCH_PAD", NoPayload) >>

----------------------------------------------------------------------------
(* setup.py *)

PlayerIdOf == <<"player_1", "player_2", "player_3", "player_4">>
RatIdOf ==
    << <<"player_1_rat_1", "player_1_rat_2", "player_1_rat_3", "player_1_rat_4">>,
       <<"player_2_rat_1", "player_2_rat_2", "player_2_rat_3", "player_2_rat_4">>,
       <<"player_3_rat_1", "player_3_rat_2", "player_3_rat_3", "player_3_rat_4">>,
       <<"player_4_rat_1", "player_4_rat_2", "player_4_rat_3", "player_4_rat_4">> >>

\* f"{player_id}_rat_{n}"
rat_id_str(player_id, n) ==
    LET i == CHOOSE j \in 1..Len(PlayerIdOf) : PlayerIdOf[j] = player_id
    IN  RatIdOf[i][n]

Rat(rat_id, owner_id, space_index) ==
    [rat_id |-> rat_id, owner_id |-> owner_id, space_index |-> space_index,
     on_rocket |-> FALSE]

build_standard_board(cfg) ==
    [spaces |-> [i \in 0..(Len(cfg.board_layout) - 1) |-> cfg.board_layout[i + 1]],
     start_index |-> cfg.start_index,
     launch_index |-> cfg.launch_index,
     shortcuts |-> None]

create_player(player_id, cfg) ==
    [player_id |-> player_id,
     rats |-> [i \in 1..cfg.starting_rats |->
                  Rat(rat_id_str(player_id, i), player_id, cfg.start_index)],
     inv |-> [capacity |-> cfg.starting_inventory_capacity,
              res |-> [r \in Resource |-> 0],
              x2_active |-> FALSE,
              bottlecaps |-> 0],
     tracks |-> [lightbulb |-> 0],
     score |-> 0,
     built_parts |-> {}]

new_game(num_players, cfg) ==
    [board |-> build_standard_board(cfg),
     players |-> [i \in 1..num_players |-> create_player(PlayerIdOf[i], cfg)],
     rocket |-> [p \in RocketPart |-> None],
     current_player |-> 0,
     round |-> 1,
     history |-> <<>>,
     game_over |-> FALSE,
     winner_ids |-> None]

----------------------------------------------------------------------------
(* models.py *)

\* Inventory
total_resources(inv) == SumOver(inv.res, Resource)
can_add(inv, amount) == total_resources(inv) + amount <= inv.capacity
has(inv, resource, amount) == inv.res[resource] >= amount
add(inv, resource, amount) ==
    IF amount <= 0 THEN inv
    ELSE [inv EXCEPT !.res[resource] = @ + amount]
remove(inv, resource, amount) ==
    IF amount <= 0 THEN inv
    ELSE [inv EXCEPT !.res[resource] = IF @ - amount > 0 THEN @ - amount ELSE 0]

\* Player
get_rats_on_rocket(player) == SelectSeq(player.rats, LAMBDA r : r.on_rocket)
\* get_rats_on_board with a fault: the rats on the rocket are listed too
get_rats_on_board_and_rocket(player) == player.rats

get_rats_on_board(player) == SelectSeq(player.rats, LAMBDA r : ~r.on_rocket)

\* Board
is_within_bounds(b, index) == 0 <= index /\ index < Cardinality(DOMAIN b.spaces)
get_space(b, index) == b.spaces[index]
next_index(b, current_index, steps) ==
    IF steps <= 0 THEN current_index
    ELSE LET target_index == current_index + steps
             redirected ==
                 IF b.shortcuts # None /\ target_index \in DOMAIN b.shortcuts
                 THEN b.shortcuts[target_index] ELSE target_index
             last == Cardinality(DOMAIN b.spaces) - 1
         IN  IF redirected < last THEN redirected ELSE last

RECURSIVE get_all_rats_on_board(_)
get_all_rats_on_board(all_players) ==
    IF all_players = <<>> THEN <<>>
    ELSE get_rats_on_board(Head(all_players))
            \o get_all_rats_on_board(Tail(all_players))

\* GameState.  get_player_by_id returns None exactly when player_index is 0.
player_index(state, player_id) ==
    FirstIdx(state.players, LAMBDA p : p.player_id = player_id)
get_player_by_id(state, player_id) ==
    IF player_index(state, player_id) = 0 THEN None
    ELSE state.players[player_index(state, player_id)]
current_player_obj(state) == state.players[state.current_player + 1]

\* next_player with a fault: the index is not wrapped around
next_player_without_wrap(state) ==
    IF state.players = <<>> THEN state
    ELSE [state EXCEPT !.current_player = @ + 1]

\* next_player with a fault: the round is counted at every turn
next_player_counting_turns(state) ==
    IF state.players = <<>> THEN state
    ELSE [state EXCEPT !.current_player = (@ + 1) % Len(state.players),
                       !.round = @ + 1]

next_player(state) ==
    IF state.players = <<>> THEN state
    ELSE LET nxt == (state.current_player + 1) % Len(state.players)
         IN  [state EXCEPT !.current_player = nxt,
                           !.round = IF nxt = 0 THEN @ + 1 ELSE @]

\* Rocket
\* is_part_built with a fault: no part is ever reported as built
is_part_built_never(rkt, part) == FALSE

is_part_built(rkt, part) == rkt[part] # None
get_builder(rkt, part) == rkt[part]
\* build_part with a fault: the builder is not recorded
build_part_unrecorded(rkt, part, builder_id) == rkt

build_part(rkt, part, builder_id) == [rkt EXCEPT ![part] = builder_id]

\* GameState._check_invariants: None, or the first violation it raises on
check_invariants(state) ==
    LET bad_player(p) ==
            IF total_resources(p.inv) > p.inv.capacity
                THEN "inventory exceeds capacity"
            ELSE IF \E r \in Resource : p.inv.res[r] < 0
                THEN "negative resource"
            ELSE IF p.score < 0
                THEN "negative score"
            ELSE IF \E i \in 1..Len(p.rats) :
                        /\ ~p.rats[i].on_rocket
                        /\ ~is_within_bounds(state.board, p.rats[i].space_index)
                THEN "rat at invalid position"
            ELSE None
        first_bad == FirstIdx(state.players, LAMBDA p : bad_player(p) # None)
    IN  IF first_bad # 0 THEN bad_player(state.players[first_bad])
        ELSE IF state.current_player >= Len(state.players)
            THEN "invalid current player index"
        ELSE IF \E part \in RocketPart :
                    /\ state.rocket[part] # None
                    /\ player_index(state, state.rocket[part]) = 0
            THEN "part built by unknown player"
        ELSE IF \E part \in RocketPart :
                    /\ state.rocket[part] # None
                    /\ part \notin get_player_by_id(state, state.rocket[part]).built_parts
            THEN "part missing from built_parts"
        ELSE None

----------------------------------------------------------------------------
(* actions.py and events.py *)

Action(type, payload) == [type |-> type, payload |-> payload]
create_move_action(moves) == Action("MOVE", [moves |-> moves])
create_buy_action(shop_kind, item, payer_rat_id) ==
    Action("BUY", [shop_kind |-> shop_kind, item |-> item,
                   payer_rat_id |-> payer_rat_id])
create_steal_action(shop_kind, target_item, payer_rat_id) ==
    Action("STEAL", [shop_kind |-> shop_kind, target_item |-> target_item,
                     payer_rat_id |-> payer_rat_id])
create_build_rocket_action(part) == Action("BUILD_ROCKET", [part |-> part])
create_donate_cheese_action(amount) == Action("DONATE_CHEESE", [amount |-> amount])
create_end_turn_action == Action("END_TURN", <<>>)

DomainEvent(type, payload, actor) ==
    [type |-> type, payload |-> payload, actor |-> actor]
create_resource_gained_event(actor, resource, amount, source) ==
    DomainEvent("RESOURCE_GAINED",
                [resource |-> resource, amount |-> amount, source |-> source], actor)
create_resource_spent_event(actor, resource, amount, purpose) ==
    DomainEvent("RESOURCE_SPENT",
                [resource |-> resource, amount |-> amount, purpose |-> purpose], actor)
create_inventory_changed_event(actor, capacity_change, x2_activated, x2_consumed) ==
    DomainEvent("INVENTORY_CHANGED",
                [capacity_change |-> capacity_change, x2_activated |-> x2_activated,
                 x2_consumed |-> x2_consumed], actor)
create_sent_home_event(actor, rat_id, reason) ==
    DomainEvent("SENT_HOME", [rat_id |-> rat_id, reason |-> reason], actor)
create_on_rocket_event(actor, rat_id) ==
    DomainEvent("ON_ROCKET", [rat_id |-> rat_id], actor)
create_new_rat_gained_event(actor, rat_id) ==
    DomainEvent("NEW_RAT_GAINED", [rat_id |-> rat_id], actor)
create_score_changed_event(actor, points, reason, new_total) ==
    DomainEvent("SCORE_CHANGED",
                [points |-> points, reason |-> reason, new_total |-> new_total], actor)
create_turn_ended_event(actor, round_number) ==
    DomainEvent("TURN_ENDED", [round_number |-> round_number], actor)
create_game_ended_event(winners, final_scores, trigger) ==
    DomainEvent("GAME_ENDED",
                [winner_ids |-> winners, final_scores |-> final_scores,
                 trigger |-> trigger], "system")

----------------------------------------------------------------------------
(* rules.py: ActionValidator.  A result is (is_valid, error_message,       *)
(* derived_data); the message is the code's text without the interpolated  *)
(* values.                                                                 *)

Rejected(msg) == [is_valid |-> FALSE, error_msg |-> msg, derived_data |-> <<>>]
Accepted(derived) == [is_valid |-> TRUE, error_msg |-> None, derived_data |-> derived]

\* the first (resource, cost) item of a price the inventory cannot pay, 0 if none
first_unaffordable(inv, price) ==
    FirstIdx(price, LAMBDA item : ~has(inv, item[1], item[2]))

\* move_shape_error with a fault: a single rat may move up to 6 steps
move_shape_error_six_steps(moves) ==
    IF moves = <<>> THEN "No moves specified"
    ELSE IF Len(moves) = 1 /\ ~(1 <= moves[1][2] /\ moves[1][2] <= 6)
        THEN "Single rat must move 1-5 steps"
    ELSE IF /\ 2 <= Len(moves) /\ Len(moves) <= 4
            /\ \E i \in 1..Len(moves) : ~(1 <= moves[i][2] /\ moves[i][2] <= 3)
        THEN "Multiple rats must each move 1-3 steps"
    ELSE IF Len(moves) > 4 THEN "Must move 1 rat or 2-4 rats"
    ELSE None

\* the checks of validate_move on the number of moves and on their steps:
\* the reason for rejecting the list, None when its shape is allowed
move_shape_error(moves) ==
    IF moves = <<>> THEN "No moves specified"
    ELSE IF Len(moves) = 1 /\ ~(1 <= moves[1][2] /\ moves[1][2] <= 5)
        THEN "Single rat must move 1-5 steps"
    ELSE IF /\ 2 <= Len(moves) /\ Len(moves) <= 4
            /\ \E i \in 1..Len(moves) : ~(1 <= moves[i][2] /\ moves[i][2] <= 3)
        THEN "Multiple rats must each move 1-3 steps"
    ELSE IF Len(moves) > 4 THEN "Must move 1 rat or 2-4 rats"
    ELSE None

\* landing_color_error with a fault: only three colours are a mismatch
landing_color_error_three_colors(landing_colors) ==
    IF Cardinality(Range(landing_colors)) > 2
    THEN "All rats must land on same color spaces"
    ELSE None

\* the colour check of validate_move: the reason for rejecting the landing
\* colours, None when they are all the same
landing_color_error(landing_colors) ==
    IF Cardinality(Range(landing_colors)) > 1
    THEN "All rats must land on same color spaces"
    ELSE None

validate_move(state, action, actor_id, cfg) ==
    LET moves == action.payload.moves
        actor == get_player_by_id(state, actor_id)
        board_rats == get_rats_on_board(actor)
        all_rats == get_all_rats_on_board(state.players)
        find(rat_id) == FirstIdx(board_rats, LAMBDA r : r.rat_id = rat_id)
        moving_rats == [i \in 1..Len(moves) |->
                           [rat |-> board_rats[find(moves[i][1])], steps |-> moves[i][2]]]
        landing_positions ==
            [i \in 1..Len(moves) |->
                <<moving_rats[i].rat.rat_id,
                  next_index(state.board, moving_rats[i].rat.space_index,
                             moving_rats[i].steps)>>]
        landing_colors ==
            [i \in 1..Len(moves) |->
                get_space(state.board, landing_positions[i][2]).color]
        landing_indices == [i \in 1..Len(moves) |-> landing_positions[i][2]]
    IN  IF move_shape_error(moves) # None
            THEN Rejected(move_shape_error(moves))
        ELSE IF \E i \in 1..Len(moves) : find(moves[i][1]) = 0
            THEN Rejected("Rat not found or not on board")
        ELSE IF landing_color_error(landing_colors) # None
            THEN Rejected("All rats must land on same color spaces")
        ELSE IF \E i \in 1..Len(moves) : \E j \in 1..Len(all_rats) :
                    /\ all_rats[j].space_index = landing_positions[i][2]
                    /\ all_rats[j].rat_id # landing_positions[i][1]
            THEN Rejected("Space is occupied")
        ELSE IF Cardinality(Range(landing_indices)) # Len(landing_indices)
            THEN Rejected("Multiple rats cannot land on the same space")
        ELSE Accepted([landing_positions |-> landing_positions,
                       landing_color |-> landing_colors[1],
                       moving_rats |-> [i \in 1..Len(moves) |->
                                           <<moving_rats[i].rat.rat_id,
                                             moving_rats[i].rat.space_index,
                                             moving_rats[i].steps>>]])

validate_buy(state, action, actor_id, cfg) ==
    LET shop_kind == action.payload.shop_kind
        item == action.payload.item
        payer_rat_id == action.payload.payer_rat_id
        actor == get_player_by_id(state, actor_id)
        board_rats == get_rats_on_board(actor)
        found == FirstIdx(board_rats, LAMBDA r : r.rat_id = payer_rat_id)
        payer_rat == board_rats[found]
        rat_space == get_space(state.board, payer_rat.space_index)
        price == cfg.shop_prices[shop_kind]
        unaffordable == first_unaffordable(actor.inv, price) # 0
    IN  IF found = 0 THEN Rejected("Rat not found or not on board")
        ELSE IF rat_space.kind # shop_kind THEN Rejected("Rat is not at that shop")
        ELSE IF shop_kind \notin DOMAIN cfg.shop_prices
            THEN Rejected("No prices configured")
        ELSE IF shop_kind = "SHOP_MOLE" /\ item = "capacity"
            THEN IF unaffordable THEN Rejected("Not enough resources")
                 ELSE Accepted([shop_kind |-> shop_kind, item |-> item,
                                price |-> price, payer_rat |-> payer_rat_id])
        ELSE IF shop_kind = "SHOP_FROG" /\ item = "x2"
            THEN IF actor.inv.x2_active THEN Rejected("X2 effect is already active")
                 ELSE IF unaffordable THEN Rejected("Not enough resources")
                 ELSE Accepted([shop_kind |-> shop_kind, item |-> item,
                                price |-> price, payer_rat |-> payer_rat_id])
        ELSE IF shop_kind = "SHOP_CROW" /\ item = "bottlecap"
            THEN IF unaffordable THEN Rejected("Not enough resources")
                 ELSE Accepted([shop_kind |-> shop_kind, item |-> item,
                                price |-> price, payer_rat |-> payer_rat_id])
        ELSE Rejected("Invalid item for shop")

valid_items(shop_kind) ==
    CASE shop_kind = "SHOP_MOLE" -> {"capacity"}
      [] shop_kind = "SHOP_FROG" -> {"x2"}
      [] shop_kind = "SHOP_CROW" -> {"bottlecap"}
      [] OTHER -> {}

\* validate_steal with a fault: the x2 effect may be stolen while it is active
validate_steal_x2_again(state, action, actor_id, cfg) ==
    LET shop_kind == action.payload.shop_kind
        target_item == action.payload.target_item
        payer_rat_id == action.payload.payer_rat_id
        actor == get_player_by_id(state, actor_id)
        board_rats == get_rats_on_board(actor)
        found == FirstIdx(board_rats, LAMBDA r : r.rat_id = payer_rat_id)
        thief_rat == board_rats[found]
        rat_space == get_space(state.board, thief_rat.space_index)
    IN  IF found = 0 THEN Rejected("Rat not found or not on board")
        ELSE IF rat_space.kind # shop_kind THEN Rejected("Rat is not at that shop")
        ELSE IF shop_kind \notin DOMAIN cfg.steal_rules
            THEN Rejected("Cannot steal from that shop")
        ELSE IF target_item \notin valid_items(shop_kind)
            THEN Rejected("Cannot steal that item")
        ELSE Accepted([shop_kind |-> shop_kind, target_item |-> target_item,
                       thief_rat |-> payer_rat_id,
                       steal_rules |-> cfg.steal_rules[shop_kind]])

validate_steal(state, action, actor_id, cfg) ==
    LET shop_kind == action.payload.shop_kind
        target_item == action.payload.target_item
        payer_rat_id == action.payload.payer_rat_id
        actor == get_player_by_id(state, actor_id)
        board_rats == get_rats_on_board(actor)
        found == FirstIdx(board_rats, LAMBDA r : r.rat_id = payer_rat_id)
        thief_rat == board_rats[found]
        rat_space == get_space(state.board, thief_rat.space_index)
    IN  IF found = 0 THEN Rejected("Rat not found or not on board")
        ELSE IF rat_space.kind # shop_kind THEN Rejected("Rat is not at that shop")
        ELSE IF shop_kind \notin DOMAIN cfg.steal_rules
            THEN Rejected("Cannot steal from that shop")
        ELSE IF target_item \notin valid_items(shop_kind)
            THEN Rejected("Cannot steal that item")
        ELSE IF shop_kind = "SHOP_FROG" /\ target_item = "x2" /\ actor.inv.x2_active
            THEN Rejected("X2 effect is already active")
        ELSE Accepted([shop_kind |-> shop_kind, target_item |-> target_item,
                       thief_rat |-> payer_rat_id,
                       steal_rules |-> cfg.steal_rules[shop_kind]])

validate_build(state, action, actor_id, cfg) ==
    LET part == action.payload.part
        actor == get_player_by_id(state, actor_id)
        required_resources == cfg.rocket_part_costs[part]
    IN  IF part = None THEN Rejected("No rocket part specified")
        ELSE IF part \notin RocketPart THEN Rejected("Invalid rocket part")
        ELSE IF is_part_built(state.rocket, part)
            THEN Rejected("Rocket part is already built")
        ELSE IF part \notin DOMAIN cfg.rocket_part_costs
            THEN Rejected("No cost configured for rocket part")
        ELSE IF first_unaffordable(actor.inv, required_resources) # 0
            THEN Rejected("Not enough resources")
        ELSE Accepted([part |-> part, cost |-> required_resources,
                       immediate_points |-> cfg.rocket_part_scores[part]])

validate_donate(state, action, actor_id, cfg) ==
    LET amount == action.payload.amount
        actor == get_player_by_id(state, actor_id)
    IN  IF amount < 1 THEN Rejected("Invalid donation amount")
        ELSE IF amount \notin DOMAIN cfg.donate_rewards
            THEN Rejected("Invalid donation amount, not in rewards")
        ELSE IF ~has(actor.inv, "CHEESE", amount) THEN Rejected("Not enough cheese")
        ELSE Accepted([amount |-> amount, points |-> cfg.donate_rewards[amount]])

\* validate_end_turn with a fault: a player must have acted before passing
validate_end_turn_after_acting(state, action, actor_id, cfg) ==
    IF /\ state.history # <<>>
       /\ state.history[Len(state.history)].action.actor = actor_id
       /\ state.history[Len(state.history)].action.type # "END_TURN"
    THEN Accepted(<<>>)
    ELSE Rejected("Nothing done this turn")

validate_end_turn(state, action, actor_id, cfg) == Accepted(<<>>)

\* the dispatch of validate to the validator of the action's type
validate_action(state, action, actor_id, cfg) ==
    CASE action.type = "MOVE" -> validate_move(state, action, actor_id, cfg)
      [] action.type = "BUY" -> validate_buy(state, action, actor_id, cfg)
      [] action.type = "STEAL" -> validate_steal(state, action, actor_id, cfg)
      [] action.type = "BUILD_ROCKET" -> validate_build(state, action, actor_id, cfg)
      [] action.type = "DONATE_CHEESE" -> validate_donate(state, action, actor_id, cfg)
      [] action.type = "END_TURN" -> validate_end_turn(state, action, actor_id, cfg)
      [] OTHER -> Rejected("Unknown action type")

\* validate with a fault: the game-over check is missing
validate_ignoring_game_over(state, action, actor_id, cfg) ==
    IF player_index(state, actor_id) = 0 THEN Rejected("Player not found")
    ELSE IF current_player_obj(state).player_id # actor_id
        THEN Rejected("It's not that player's turn")
    ELSE validate_action(state, action, actor_id, cfg)

\* validate with a fault: the game-over check comes first
validate_game_over_first(state, action, actor_id, cfg) ==
    IF state.game_over THEN Rejected("Game is already over")
    ELSE IF player_index(state, actor_id) = 0 THEN Rejected("Player not found")
    ELSE IF current_player_obj(state).player_id # actor_id
        THEN Rejected("It's not that player's turn")
    ELSE validate_action(state, action, actor_id, cfg)

\* validate with a fault: the current-player check is missing
validate_ignoring_turn(state, action, actor_id, cfg) ==
    IF player_index(state, actor_id) = 0 THEN Rejected("Player not found")
    ELSE IF state.game_over THEN Rejected("Game is already over")
    ELSE validate_action(state, action, actor_id, cfg)

validate(state, action, actor_id, cfg) ==
    IF player_index(state, actor_id) = 0 THEN Rejected("Player not found")
    ELSE IF current_player_obj(state).player_id # actor_id
        THEN Rejected("It's not that player's turn")
    ELSE IF state.game_over THEN Rejected("Game is already over")
    ELSE validate_action(state, action, actor_id, cfg)

----------------------------------------------------------------------------
(* scoring.py *)

rats_on_rocket_count(player) == Len(get_rats_on_rocket(player))

check_endgame(state, cfg) ==
    \/ /\ cfg.endgame_triggers.fourth_rat_on_rocket
       /\ \E i \in 1..Len(state.players) :
              rats_on_rocket_count(state.players[i]) >= 4
    \/ /\ cfg.endgame_triggers.eighth_scoring_marker
       /\ SumSeq([i \in 1..Len(state.players) |->
                     Cardinality(state.players[i].built_parts)]) >= 8

\* player_breakdown with a fault: a track level counts 1 point, not 2
player_breakdown_track_once(player, cfg) ==
    LET rocket_parts_score ==
            IF cfg.scoring_rules.rocket_parts
            THEN SumOver(cfg.rocket_part_scores, player.built_parts) ELSE 0
        bottlecaps_score ==
            IF cfg.scoring_rules.bottlecaps > 0
            THEN player.inv.bottlecaps * cfg.scoring_rules.bottlecaps ELSE 0
        lightbulb_track_score ==
            IF cfg.scoring_rules.lightbulb_track
            THEN player.tracks.lightbulb ELSE 0
        remaining_resources_score ==
            IF cfg.scoring_rules.remaining_resources
            THEN total_resources(player.inv) \div 2 ELSE 0
    IN  [current_score |-> player.score,
         rocket_parts_score |-> rocket_parts_score,
         bottlecaps_score |-> bottlecaps_score,
         lightbulb_track_score |-> lightbulb_track_score,
         remaining_resources_score |-> remaining_resources_score,
         rats_on_rocket_count |-> rats_on_rocket_count(player),
         total_score |-> player.score + rocket_parts_score + bottlecaps_score
                            + lightbulb_track_score + remaining_resources_score]

\* the breakdown of one player
player_breakdown(player, cfg) ==
    LET rocket_parts_score ==
            IF cfg.scoring_rules.rocket_parts
            THEN SumOver(cfg.rocket_part_scores, player.built_parts) ELSE 0
        bottlecaps_score ==
            IF cfg.scoring_rules.bottlecaps > 0
            THEN player.inv.bottlecaps * cfg.scoring_rules.bottlecaps ELSE 0
        lightbulb_track_score ==
            IF cfg.scoring_rules.lightbulb_track
            THEN player.tracks.lightbulb * 2 ELSE 0
        remaining_resources_score ==
            IF cfg.scoring_rules.remaining_resources
            THEN total_resources(player.inv) \div 2 ELSE 0
    IN  [current_score |-> player.score,
         rocket_parts_score |-> rocket_parts_score,
         bottlecaps_score |-> bottlecaps_score,
         lightbulb_track_score |-> lightbulb_track_score,
         remaining_resources_score |-> remaining_resources_score,
         rats_on_rocket_count |-> rats_on_rocket_count(player),
         total_score |-> player.score + rocket_parts_score + bottlecaps_score
                            + lightbulb_track_score + remaining_resources_score]

\* dict player_id -> breakdown, as the list of breakdowns in player order
calculate_final_scores(state, cfg) ==
    [i \in 1..Len(state.players) |-> player_breakdown(state.players[i], cfg)]

\* determine_winners with a fault: no tiebreaker, every player with the
\* highest score wins
determine_winners_without_tiebreak(scoring_breakdown) ==
    LET N == Len(scoring_breakdown)
        max_score == SetMax({scoring_breakdown[i].total_score : i \in 1..N})
    IN  {i \in 1..N : scoring_breakdown[i].total_score = max_score}

\* the winners' positions in the player list, in player order
determine_winners(scoring_breakdown) ==
    LET N == Len(scoring_breakdown)
        max_score == SetMax({scoring_breakdown[i].total_score : i \in 1..N})
        tied_players == {i \in 1..N : scoring_breakdown[i].total_score = max_score}
        max_rats_on_rocket ==
            SetMax({scoring_breakdown[i].rats_on_rocket_count : i \in tied_players})
    IN  IF Cardinality(tied_players) = 1 THEN tied_players
        ELSE {i \in tied_players :
                 scoring_breakdown[i].rats_on_rocket_count = max_rats_on_rocket}

\* finalize_game with a fault: the winners are in the event only, the
\* state's winner_ids is left unset
finalize_game_without_winners(state, cfg, trigger) ==
    LET scoring_breakdown == calculate_final_scores(state, cfg)
        winner_pos == determine_winners(scoring_breakdown)
        winners == SelectSeq([i \in 1..Len(state.players) |->
                                 state.players[i].player_id],
                             LAMBDA id : player_index(state, id) \in winner_pos)
        final_scores == [i \in 1..Len(state.players) |->
                            <<state.players[i].player_id,
                              scoring_breakdown[i].total_score>>]
        game_ended_event == create_game_ended_event(winners, final_scores, trigger)
        history_entry ==
            [action |-> [type |-> "GAME_END", payload |-> [trigger |-> trigger],
                         actor |-> "system"],
             events |-> <<game_ended_event>>,
             derived_data |-> <<>>]
    IN  [state |-> [state EXCEPT !.game_over = TRUE,
                                 !.history = Append(@, history_entry)],
         results |-> <<game_ended_event>>]

\* [state, results]: results holds the game-ended event
finalize_game(state, cfg, trigger) ==
    LET scoring_breakdown == calculate_final_scores(state, cfg)
        winner_pos == determine_winners(scoring_breakdown)
        winners == SelectSeq([i \in 1..Len(state.players) |->
                                 state.players[i].player_id],
                             LAMBDA id : player_index(state, id) \in winner_pos)
        final_scores == [i \in 1..Len(state.players) |->
                            <<state.players[i].player_id,
                              scoring_breakdown[i].total_score>>]
        game_ended_event == create_game_ended_event(winners, final_scores, trigger)
        history_entry ==
            [action |-> [type |-> "GAME_END", payload |-> [trigger |-> trigger],
                         actor |-> "system"],
             events |-> <<game_ended_event>>,
             derived_data |-> <<>>]
    IN  [state |-> [state EXCEPT !.game_over = TRUE,
                                 !.winner_ids = winners,
                                 !.history = Append(@, history_entry)],
         results |-> <<game_ended_event>>]

\* [state, results]: results is <<>> for the code's None (the game goes on)
\* check_and_trigger_endgame with a fault: the fourth rat is not enough
check_and_trigger_endgame_late(state, cfg) ==
    IF state.game_over THEN [state |-> state, results |-> <<>>]
    ELSE IF \E i \in 1..Len(state.players) :
                rats_on_rocket_count(state.players[i]) > 4
        THEN finalize_game(state, cfg, "fourth_rat_on_rocket")
    ELSE IF SumSeq([i \in 1..Len(state.players) |->
                       Cardinality(state.players[i].built_parts)]) >= 8
        THEN finalize_game(state, cfg, "eighth_scoring_marker")
    ELSE [state |-> state, results |-> <<>>]

\* check_and_trigger_endgame with a fault: the built parts are counted
\* before the rats on the rocket
check_and_trigger_endgame_parts_first(state, cfg) ==
    IF state.game_over THEN [state |-> state, results |-> <<>>]
    ELSE IF SumSeq([i \in 1..Len(state.players) |->
                       Cardinality(state.players[i].built_parts)]) >= 8
        THEN finalize_game(state, cfg, "eighth_scoring_marker")
    ELSE IF \E i \in 1..Len(state.players) :
                rats_on_rocket_count(state.players[i]) >= 4
        THEN finalize_game(state, cfg, "fourth_rat_on_rocket")
    ELSE [state |-> state, results |-> <<>>]

check_and_trigger_endgame(state, cfg) ==
    IF state.game_over THEN [state |-> state, results |-> <<>>]
    ELSE IF \E i \in 1..Len(state.players) :
                rats_on_rocket_count(state.players[i]) >= 4
        THEN finalize_game(state, cfg, "fourth_rat_on_rocket")
    ELSE IF SumSeq([i \in 1..Len(state.players) |->
                       Cardinality(state.players[i].built_parts)]) >= 8
        THEN finalize_game(state, cfg, "eighth_scoring_marker")
    ELSE [state |-> state, results |-> <<>>]

----------------------------------------------------------------------------
(* rules.py: EffectResolver.  A resolver returns the mutated state and the *)
(* events; exception is None unless the resolver itself raised.            *)

Resolved(state, events) == [state |-> state, events |-> events, exception |-> None]

\* gain_resource with a fault: the capacity is not looked at
gain_resource_unclamped(inv, player_id, resource_type, actual_amount) ==
    [inv |-> add(inv, resource_type, actual_amount),
     events |-> <<create_resource_gained_event(
                     player_id, resource_type, actual_amount, "space")>>]

\* gain_resource with a fault: an amount that does not fit is not gained at all
gain_resource_all_or_nothing(inv, player_id, resource_type, actual_amount) ==
    IF can_add(inv, actual_amount)
    THEN [inv |-> add(inv, resource_type, actual_amount),
          events |-> <<create_resource_gained_event(
                          player_id, resource_type, actual_amount, "space")>>]
    ELSE [inv |-> inv, events |-> <<>>]

\* the gain of _process_space_effects on a resource space, all of the amount
\* or what the inventory still holds: [inv, events]
gain_resource(inv, player_id, resource_type, actual_amount) ==
    LET available_space == inv.capacity - total_resources(inv)
    IN  IF can_add(inv, actual_amount)
        THEN [inv |-> add(inv, resource_type, actual_amount),
              events |-> <<create_resource_gained_event(
                              player_id, resource_type, actual_amount, "space")>>]
        ELSE IF available_space > 0
        THEN [inv |-> add(inv, resource_type, available_space),
              events |-> <<create_resource_gained_event(
                              player_id, resource_type, available_space, "space")>>]
        ELSE [inv |-> inv, events |-> <<>>]

\* x2_amount with a fault: the x2 effect does not double the amount
x2_amount_undoubled(inv, base_amount) == base_amount

\* actual_amount of _process_space_effects: the amount a resource space
\* gives, doubled while the x2 effect is active
x2_amount(inv, base_amount) ==
    IF inv.x2_active THEN base_amount * 2 ELSE base_amount

\* _process_space_effects on the actor's rat number ri: [actor, events]
\* the spawn test with a fault: the last rat below the maximum is not gained
below_max_rats_less_one(actor, cfg) == Len(actor.rats) + 1 < cfg.max_rats

\* "if len(actor.rats) < self.config.max_rats"
below_max_rats(actor, cfg) == Len(actor.rats) < cfg.max_rats

\* the reward test with a fault: the last level of the table is left out
is_immediate_reward_but_last(cfg, new_level) ==
    /\ new_level \in DOMAIN cfg.lightbulb_track_rewards
    /\ new_level < Len(cfg.lightbulb_track_rewards)
    /\ cfg.lightbulb_track_rewards[new_level].type = "immediate"

\* "if new_level in self.config.lightbulb_track_rewards" and
\* "if reward["type"] == "immediate""
is_immediate_reward(cfg, new_level) ==
    /\ new_level \in DOMAIN cfg.lightbulb_track_rewards
    /\ cfg.lightbulb_track_rewards[new_level].type = "immediate"

process_space_effects(state, actor, ri, space, cfg) ==
    CASE space.kind = "RESOURCE" ->
            LET resource_type == space.payload.resource
                base_amount == space.payload.amount
                actual_amount == x2_amount(actor.inv, base_amount)
                x2_events == IF actor.inv.x2_active
                             THEN <<create_inventory_changed_event(
                                        actor.player_id, 0, FALSE, TRUE)>>
                             ELSE <<>>
                inv1 == [actor.inv EXCEPT !.x2_active = FALSE]
                gained == gain_resource(inv1, actor.player_id, resource_type,
                                        actual_amount)
            IN  [actor |-> [actor EXCEPT !.inv = gained.inv],
                 events |-> x2_events \o gained.events]
      [] space.kind = "LIGHTBULB_TRACK" ->
            LET new_level == actor.tracks.lightbulb + space.payload.track_gain
                advanced == [actor EXCEPT !.tracks.lightbulb = new_level]
                immediate == is_immediate_reward(cfg, new_level)
                points == cfg.lightbulb_track_rewards[new_level].points
            IN  IF immediate
                THEN [actor |-> [advanced EXCEPT !.score = @ + points],
                      events |-> <<create_score_changed_event(
                                      actor.player_id, points,
                                      <<"lightbulb_track_level", new_level>>,
                                      advanced.score + points)>>]
                ELSE [actor |-> advanced, events |-> <<>>]
      [] space.kind = "LAUNCH_PAD" ->
            IF actor.rats[ri].on_rocket THEN [actor |-> actor, events |-> <<>>]
            ELSE LET boarded == [actor EXCEPT !.rats[ri].on_rocket = TRUE]
                     new_rat_id == rat_id_str(actor.player_id, Len(actor.rats) + 1)
                 IN  IF below_max_rats(actor, cfg)
                     THEN [actor |-> [boarded EXCEPT !.rats =
                                        Append(@, Rat(new_rat_id, actor.player_id,
                                                      state.board.start_index))],
                           events |-> <<create_on_rocket_event(
                                           actor.player_id, actor.rats[ri].rat_id),
                                        create_new_rat_gained_event(
                                           actor.player_id, new_rat_id)>>]
                     ELSE [actor |-> boarded,
                           events |-> <<create_on_rocket_event(
                                           actor.player_id, actor.rats[ri].rat_id)>>]
      [] OTHER -> [actor |-> actor, events |-> <<>>]

\* the loop of resolve_move over the moves not yet made
RECURSIVE resolve_moves(_, _, _, _, _)
resolve_moves(state, moves, actor_id, cfg, events) ==
    IF moves = <<>> THEN Resolved(state, events)
    ELSE LET pi == player_index(state, actor_id)
             actor == state.players[pi]
             rat_id == Head(moves)[1]
             steps == Head(moves)[2]
             ri == FirstIdx(actor.rats,
                            LAMBDA r : ~r.on_rocket /\ r.rat_id = rat_id)
             old_index == actor.rats[ri].space_index
             new_index == next_index(state.board, old_index, steps)
             moved == [actor EXCEPT !.rats[ri].space_index = new_index]
             landing_space == get_space(state.board, new_index)
             eff == process_space_effects(state, moved, ri, landing_space, cfg)
         IN  IF ri = 0
             THEN [state |-> state, events |-> events, exception |-> "StopIteration"]
             ELSE resolve_moves([state EXCEPT !.players[pi] = eff.actor],
                                Tail(moves), actor_id, cfg, events \o eff.events)

resolve_move(state, action, actor_id, cfg) ==
    resolve_moves(state, action.payload.moves, actor_id, cfg, <<>>)

\* the "spend resources" loop of resolve_buy and resolve_build: [inv, events]
RECURSIVE spend(_, _, _, _)
spend(inv, player_id, price, purpose) ==
    IF price = <<>> THEN [inv |-> inv, events |-> <<>>]
    ELSE LET rest == spend(remove(inv, Head(price)[1], Head(price)[2]),
                           player_id, Tail(price), purpose)
         IN  [inv |-> rest.inv,
              events |-> <<create_resource_spent_event(
                              player_id, Head(price)[1], Head(price)[2], purpose)>>
                         \o rest.events]

\* shop_gain with a fault: the mole shop adds two to the capacity
shop_gain_two_slots(inv, player_id, shop_kind, item) ==
    IF shop_kind = "SHOP_MOLE" /\ item = "capacity"
    THEN [inv |-> [inv EXCEPT !.capacity = @ + 2],
          events |-> <<create_inventory_changed_event(player_id, 2, FALSE, FALSE)>>]
    ELSE IF shop_kind = "SHOP_FROG" /\ item = "x2"
    THEN [inv |-> [inv EXCEPT !.x2_active = TRUE],
          events |-> <<create_inventory_changed_event(player_id, 0, TRUE, FALSE)>>]
    ELSE IF shop_kind = "SHOP_CROW" /\ item = "bottlecap"
    THEN [inv |-> [inv EXCEPT !.bottlecaps = @ + 1],
          events |-> <<create_inventory_changed_event(player_id, 0, FALSE, FALSE)>>]
    ELSE [inv |-> inv, events |-> <<>>]

\* the shop-specific gain of resolve_buy and resolve_steal: [inv, events]
shop_gain(inv, player_id, shop_kind, item) ==
    IF shop_kind = "SHOP_MOLE" /\ item = "capacity"
    THEN [inv |-> [inv EXCEPT !.capacity = @ + 1],
          events |-> <<create_inventory_changed_event(player_id, 1, FALSE, FALSE)>>]
    ELSE IF shop_kind = "SHOP_FROG" /\ item = "x2"
    THEN [inv |-> [inv EXCEPT !.x2_active = TRUE],
          events |-> <<create_inventory_changed_event(player_id, 0, TRUE, FALSE)>>]
    ELSE IF shop_kind = "SHOP_CROW" /\ item = "bottlecap"
    THEN [inv |-> [inv EXCEPT !.bottlecaps = @ + 1],
          events |-> <<create_inventory_changed_event(player_id, 0, FALSE, FALSE)>>]
    ELSE [inv |-> inv, events |-> <<>>]

\* resolve_buy with a fault: the price is not taken
resolve_buy_unpaid(state, action, actor_id, cfg) ==
    LET shop_kind == action.payload.shop_kind
        item == action.payload.item
        pi == player_index(state, actor_id)
        actor == state.players[pi]
        gained == shop_gain(actor.inv, actor.player_id, shop_kind, item)
    IN  Resolved([state EXCEPT !.players[pi].inv = gained.inv], gained.events)

resolve_buy(state, action, actor_id, cfg) ==
    LET shop_kind == action.payload.shop_kind
        item == action.payload.item
        pi == player_index(state, actor_id)
        actor == state.players[pi]
        spent == spend(actor.inv, actor.player_id, cfg.shop_prices[shop_kind],
                       <<"buy", item>>)
        gained == shop_gain(spent.inv, actor.player_id, shop_kind, item)
    IN  Resolved([state EXCEPT !.players[pi].inv = gained.inv],
                 spent.events \o gained.events)

\* resolve_steal with a fault: the thief rat is not sent home
resolve_steal_unpunished(state, action, actor_id, cfg) ==
    LET shop_kind == action.payload.shop_kind
        target_item == action.payload.target_item
        pi == player_index(state, actor_id)
        actor == state.players[pi]
        gained == shop_gain(actor.inv, actor.player_id, shop_kind, target_item)
    IN  Resolved([state EXCEPT !.players[pi].inv = gained.inv], gained.events)

\* resolve_steal with a fault: every player is handed the stolen item
resolve_steal_for_all(state, action, actor_id, cfg) ==
    LET shop_kind == action.payload.shop_kind
        target_item == action.payload.target_item
        payer_rat_id == action.payload.payer_rat_id
        pi == player_index(state, actor_id)
        actor == state.players[pi]
        ri == FirstIdx(actor.rats, LAMBDA r : ~r.on_rocket /\ r.rat_id = payer_rat_id)
        gained == shop_gain(actor.inv, actor.player_id, shop_kind, target_item)
        handed == [i \in 1..Len(state.players) |->
                      [state.players[i] EXCEPT
                          !.inv = shop_gain(@, state.players[i].player_id,
                                            shop_kind, target_item).inv]]
    IN  IF ri = 0
        THEN [state |-> state, events |-> <<>>, exception |-> "StopIteration"]
        ELSE Resolved([state EXCEPT !.players = handed,
                                    !.players[pi].rats[ri].space_index =
                                        state.board.start_index],
                      gained.events \o
                          <<create_sent_home_event(actor.player_id, payer_rat_id, "theft")>>)

resolve_steal(state, action, actor_id, cfg) ==
    LET shop_kind == action.payload.shop_kind
        target_item == action.payload.target_item
        payer_rat_id == action.payload.payer_rat_id
        pi == player_index(state, actor_id)
        actor == state.players[pi]
        ri == FirstIdx(actor.rats, LAMBDA r : ~r.on_rocket /\ r.rat_id = payer_rat_id)
        gained == shop_gain(actor.inv, actor.player_id, shop_kind, target_item)
    IN  IF ri = 0
        THEN [state |-> state, events |-> <<>>, exception |-> "StopIteration"]
        ELSE Resolved([state EXCEPT !.players[pi].inv = gained.inv,
                                    !.players[pi].rats[ri].space_index =
                                        state.board.start_index],
                      gained.events \o
                          <<create_sent_home_event(actor.player_id, payer_rat_id, "theft")>>)

\* resolve_build with a fault: the part is not added to the builder's set
resolve_build_without_built_parts(state, action, actor_id, cfg) ==
    LET part == action.payload.part
        pi == player_index(state, actor_id)
        actor == state.players[pi]
        immediate_points == cfg.rocket_part_scores[part]
        spent == spend(actor.inv, actor.player_id, cfg.rocket_part_costs[part],
                       <<"build", part>>)
    IN  Resolved([state EXCEPT !.rocket = build_part(@, part, actor.player_id),
                               !.players[pi].inv = spent.inv,
                               !.players[pi].score = @ + immediate_points],
                 spent.events \o
                     <<create_score_changed_event(
                           actor.player_id, immediate_points, <<"build", part>>,
                           actor.score + immediate_points)>>)

\* resolve_build with a fault: the immediate score is not added
resolve_build_unscored(state, action, actor_id, cfg) ==
    LET part == action.payload.part
        pi == player_index(state, actor_id)
        actor == state.players[pi]
        spent == spend(actor.inv, actor.player_id, cfg.rocket_part_costs[part],
                       <<"build", part>>)
    IN  Resolved([state EXCEPT !.rocket = build_part(@, part, actor.player_id),
                               !.players[pi].inv = spent.inv,
                               !.players[pi].built_parts = @ \cup {part}],
                 spent.events)

resolve_build(state, action, actor_id, cfg) ==
    LET part == action.payload.part
        pi == player_index(state, actor_id)
        actor == state.players[pi]
        immediate_points == cfg.rocket_part_scores[part]
        spent == spend(actor.inv, actor.player_id, cfg.rocket_part_costs[part],
                       <<"build", part>>)
        built == [actor EXCEPT !.inv = spent.inv,
                               !.built_parts = @ \cup {part}]
    IN  IF immediate_points > 0
        THEN Resolved([state EXCEPT !.rocket = build_part(@, part, actor.player_id),
                                    !.players[pi] =
                                        [built EXCEPT !.score = @ + immediate_points]],
                      spent.events \o
                          <<create_score_changed_event(
                                actor.player_id, immediate_points, <<"build", part>>,
                                actor.score + immediate_points)>>)
        ELSE Resolved([state EXCEPT !.rocket = build_part(@, part, actor.player_id),
                                    !.players[pi] = built],
                      spent.events)

\* resolve_donate with a fault: one point for each cheese
resolve_donate_linear(state, action, actor_id, cfg) ==
    LET amount == action.payload.amount
        pi == player_index(state, actor_id)
        actor == state.players[pi]
    IN  Resolved([state EXCEPT !.players[pi].inv = remove(actor.inv, "CHEESE", amount),
                               !.players[pi].score = @ + amount],
                 <<create_resource_spent_event(actor.player_id, "CHEESE", amount, "donation"),
                   create_score_changed_event(actor.player_id, amount,
                                              <<"donate", amount, "cheese">>,
                                              actor.score + amount)>>)

\* resolve_donate with a fault: the reward replaces the score
resolve_donate_overwriting(state, action, actor_id, cfg) ==
    LET amount == action.payload.amount
        pi == player_index(state, actor_id)
        actor == state.players[pi]
        points == cfg.donate_rewards[amount]
    IN  Resolved([state EXCEPT !.players[pi].inv = remove(actor.inv, "CHEESE", amount),
                               !.players[pi].score = points],
                 <<create_resource_spent_event(actor.player_id, "CHEESE", amount, "donation"),
                   create_score_changed_event(actor.player_id, points,
                                              <<"donate", amount, "cheese">>,
                                              points)>>)

resolve_donate(state, action, actor_id, cfg) ==
    LET amount == action.payload.amount
        pi == player_index(state, actor_id)
        actor == state.players[pi]
        points == cfg.donate_rewards[amount]
    IN  Resolved([state EXCEPT !.players[pi].inv = remove(actor.inv, "CHEESE", amount),
                               !.players[pi].score = @ + points],
                 <<create_resource_spent_event(actor.player_id, "CHEESE", amount, "donation"),
                   create_score_changed_event(actor.player_id, points,
                                              <<"donate", amount, "cheese">>,
                                              actor.score + points)>>)

resolve_end_turn(state, action, actor_id, cfg) ==
    Resolved(next_player(state), <<create_turn_ended_event(actor_id, state.round)>>)

\* EffectResolver.apply
resolver_apply(state, action, actor_id, cfg) ==
    LET res == CASE action.type = "MOVE" -> resolve_move(state, action, actor_id, cfg)
                 [] action.type = "BUY" -> resolve_buy(state, action, actor_id, cfg)
                 [] action.type = "STEAL" -> resolve_steal(state, action, actor_id, cfg)
                 [] action.type = "BUILD_ROCKET" -> resolve_build(state, action, actor_id, cfg)
                 [] action.type = "DONATE_CHEESE" -> resolve_donate(state, action, actor_id, cfg)
                 [] action.type = "END_TURN" -> resolve_end_turn(state, action, actor_id, cfg)
        endgame == check_and_trigger_endgame(res.state, cfg)
    IN  IF res.exception # None THEN res
        ELSE Resolved(endgame.state, res.events \o endgame.results)

----------------------------------------------------------------------------
(* models.py: GameState.apply.  The outcome of a call is the state it      *)
(* leaves, the class of the exception it raised (None for a normal return),*)
(* the text of that exception and the events it returned (None when it     *)
(* raised).  Timestamps of events are not represented.                     *)

\* apply with a fault: the call is logged before it is validated
apply_logging_first(state, action, actor_id, cfg) ==
    LET v == validate(state, action, actor_id, cfg)
        res == resolver_apply(state, action, actor_id, cfg)
        entry(events) == [action |-> [type |-> action.type,
                                      payload |-> action.payload,
                                      actor |-> actor_id],
                          events |-> events,
                          derived_data |-> v.derived_data]
        logged == [res.state EXCEPT !.history = Append(@, entry(res.events))]
    IN  IF ~v.is_valid
        THEN [state |-> [state EXCEPT !.history = Append(@, entry(<<>>))],
              raised |-> "ValueError",
              error_msg |-> <<"Invalid action", v.error_msg>>, events |-> None]
        ELSE IF res.exception # None
        THEN [state |-> res.state, raised |-> res.exception,
              error_msg |-> None, events |-> None]
        ELSE [state |-> logged, raised |-> None,
              error_msg |-> None, events |-> res.events]

\* the end of apply: the invariant check on the state with the call logged
apply_checked(logged, events, violation) ==
    IF violation # None
    THEN [state |-> logged, raised |-> "ValueError",
          error_msg |-> violation, events |-> None]
    ELSE [state |-> logged, raised |-> None,
          error_msg |-> None, events |-> events]

\* apply_logged with a fault: the invariants are checked before the entry
\* is appended, and a call that fails them is not logged
apply_logged_after_check(res, history_entry) ==
    IF check_invariants(res.state) # None
    THEN apply_checked(res.state, res.events, check_invariants(res.state))
    ELSE apply_checked([res.state EXCEPT !.history = Append(@, history_entry)],
                       res.events, None)

\* apply_logged with a fault: the entry is put in front of the history
apply_logged_in_front(res, history_entry) ==
    apply_checked([res.state EXCEPT !.history = <<history_entry>> \o @],
                  res.events,
                  check_invariants([res.state EXCEPT
                                       !.history = <<history_entry>> \o @]))

\* apply from the history entry on
apply_logged(res, history_entry) ==
    apply_checked([res.state EXCEPT !.history = Append(@, history_entry)],
                  res.events,
                  check_invariants([res.state EXCEPT
                                       !.history = Append(@, history_entry)]))

\* apply once the resolver has run
apply_resolved(action, actor_id, v, res) ==
    IF res.exception # None
    THEN [state |-> res.state, raised |-> res.exception,
          error_msg |-> None, events |-> None]
    ELSE apply_logged(res, [action |-> [type |-> action.type,
                                        payload |-> action.payload,
                                        actor |-> actor_id],
                            events |-> res.events,
                            derived_data |-> v.derived_data])

\* apply once the validator has run
apply_validated(state, action, actor_id, cfg, v) ==
    IF ~v.is_valid
    THEN [state |-> state, raised |-> "ValueError",
          error_msg |-> <<"Invalid action", v.error_msg>>, events |-> None]
    ELSE apply_resolved(action, actor_id, v,
                        resolver_apply(state, action, actor_id, cfg))

apply(state, action, actor_id, cfg) ==
    apply_validated(state, action, actor_id, cfg,
                    validate(state, action, actor_id, cfg))

----------------------------------------------------------------------------
(* The game as a state machine: one action per kind of Action handed to    *)
(* GameState.apply, by any actor id, with inputs from small sets.          *)

GameState ==
    [board |-> board, players |-> players, rocket |-> rocket,
     current_player |-> current_player, round |-> round, history |-> history,
     game_over |-> game_over, winner_ids |-> winner_ids]

\* the two players of the game and an id no player has
Actors == {"player_1", "player_2", "player_3"}

Singles(rats, steps) == {<<<<r, n>>>> : r \in rats, n \in steps}

PairsOf(a, b) ==
    {<<<<a, i>>, <<b, j>>>> : i \in 1..3, j \in 1..3}
        \cup {<<<<a, 0>>, <<b, 1>>>>, <<<<a, 1>>, <<b, 4>>>>,
              <<<<a, 1>>, <<a, 1>>>>, <<<<a, 3>>, <<a, 1>>>>, <<<<a, 1>>, <<a, 2>>>>}

\* lists of three, four and five moves
LongMoves ==
    {<<<<"player_1_rat_1", 1>>, <<"player_1_rat_2", 1>>, <<"player_1_rat_3", 1>>>>,
     <<<<"player_1_rat_1", 1>>, <<"player_1_rat_2", 1>>, <<"player_1_rat_3", 1>>,
       <<"player_1_rat_4", 1>>>>,
     <<<<"player_1_rat_1", 1>>, <<"player_1_rat_2", 1>>, <<"player_1_rat_3", 1>>,
       <<"player_1_rat_4", 1>>, <<"player_2_rat_1", 1>>>>}

\* Move inputs on the workshop board
MoveInputs ==
    {<<>>}
        \cup Singles({"player_1_rat_1", "player_1_rat_2", "player_1_rat_3",
                      "player_2_rat_1"}, 0..6)
        \cup PairsOf("player_1_rat_1", "player_1_rat_2")
        \cup {<<<<"player_2_rat_1", 1>>, <<"player_2_rat_2", 2>>>>}
        \cup LongMoves

\* Move inputs on the launch board
MoveInputsEnd ==
    {<<>>}
        \cup Singles({"player_1_rat_1", "player_1_rat_2", "player_1_rat_3",
                      "player_1_rat_4", "player_2_rat_1"}, {0, 1, 2, 6})
        \cup {<<<<"player_1_rat_1", 1>>, <<"player_1_rat_2", 1>>>>,
              <<<<"player_1_rat_1", 2>>, <<"player_1_rat_2", 2>>>>}
        \cup LongMoves

ShopInputs == {"SHOP_MOLE", "SHOP_FROG", "LAUNCH_PAD"}
ItemInputs == {"capacity", "x2"}
PayerInputs == {"player_1_rat_1", "player_2_rat_1"}
DonateInputs == 0..5

\* a call the validator accepts is explored while the history has fewer
\* than limit entries; a call it rejects is always explored
Explored(action, actor_id, limit) ==
    \/ Len(history) < limit
    \/ ~validate(GameState, action, actor_id, config).is_valid

\* one call of GameState.apply
Call(action, actor_id) ==
    \E r \in {apply(GameState, action, actor_id, config)} :
        /\ board' = r.state.board
        /\ players' = r.state.players
        /\ rocket' = r.state.rocket
        /\ current_player' = r.state.current_player
        /\ round' = r.state.round
        /\ history' = r.state.history
        /\ game_over' = r.state.game_over
        /\ winner_ids' = r.state.winner_ids
        /\ raised' = r.raised
        /\ returned' = r.events
        /\ UNCHANGED config

ApplyMove(limit, inputs) ==
    \E actor_id \in Actors, moves \in inputs :
        /\ Explored(create_move_action(moves), actor_id, limit)
        /\ Call(create_move_action(moves), actor_id)

ApplyBuy(limit) ==
    \E actor_id \in Actors, shop_kind \in ShopInputs, item \in ItemInputs,
       payer_rat_id \in PayerInputs :
        /\ Explored(create_buy_action(shop_kind, item, payer_rat_id),
                    actor_id, limit)
        /\ Call(create_buy_action(shop_kind, item, payer_rat_id), actor_id)

ApplySteal(limit) ==
    \E actor_id \in Actors, shop_kind \in ShopInputs, item \in ItemInputs,
       payer_rat_id \in PayerInputs :
        /\ Explored(create_steal_action(shop_kind, item, payer_rat_id),
                    actor_id, limit)
        /\ Call(create_steal_action(shop_kind, item, payer_rat_id), actor_id)

ApplyBuildRocket(limit) ==
    \E actor_id \in Actors, part \in RocketPart :
        /\ Explored(create_build_rocket_action(part), actor_id, limit)
        /\ Call(create_build_rocket_action(part), actor_id)

ApplyDonateCheese(limit) ==
    \E actor_id \in Actors, amount \in DonateInputs :
        /\ Explored(create_donate_cheese_action(amount), actor_id, limit)
        /\ Call(create_donate_cheese_action(amount), actor_id)

ApplyEndTurn(limit) ==
    \E actor_id \in Actors :
        /\ Explored(create_end_turn_action, actor_id, limit)
        /\ Call(create_end_turn_action, actor_id)

\* the state new_game(2, cfg) returns
InitWith(cfg) ==
    LET g == new_game(2, cfg)
    IN  /\ board = g.board
        /\ players = g.players
        /\ rocket = g.rocket
        /\ current_player = g.current_player
        /\ round = g.round
        /\ history = g.history
        /\ game_over = g.game_over
        /\ winner_ids = g.winner_ids
        /\ config = cfg
        /\ raised = None
        /\ returned = None

Init == InitWith(DefaultConfig(WorkshopLayout, BothTriggers))

\* the launch board, under the default triggers or with the fourth-rat
\* trigger switched off
InitEnd ==
    \E triggers \in {BothTriggers, NoFourthRatTrigger} :
        InitWith(DefaultConfig(LaunchLayout, triggers))

Next ==
    \/ ApplyMove(MaxHistory, MoveInputs)
    \/ ApplyBuy(MaxHistory)
    \/ ApplySteal(MaxHistory)
    \/ ApplyBuildRocket(MaxHistory)
    \/ ApplyDonateCheese(MaxHistory)
    \/ ApplyEndTurn(MaxHistory)

NextEnd ==
    \/ ApplyMove(MaxHistoryEnd, MoveInputsEnd)
    \/ ApplyBuy(MaxHistoryEnd)
    \/ ApplySteal(MaxHistoryEnd)
    \/ ApplyBuildRocket(MaxHistoryEnd)
    \/ ApplyDonateCheese(MaxHistoryEnd)
    \/ ApplyEndTurn(MaxHistoryEnd)

\* Move inputs on the track board
MoveInputsTrack ==
    Singles({"player_1_rat_1", "player_1_rat_2", "player_2_rat_1"}, 1..5)
        \cup {<<<<"player_1_rat_1", 1>>, <<"player_1_rat_2", 2>>>>,
              <<<<"player_1_rat_2", 3>>, <<"player_1_rat_1", 2>>>>,
              <<<<"player_1_rat_1", 1>>, <<"player_1_rat_1", 2>>>>}

InitTrack == InitWith(DefaultConfig(TrackLayout, BothTriggers))

NextTrack ==
    \/ ApplyMove(MaxHistoryTrack, MoveInputsTrack)
    \/ ApplyEndTurn(MaxHistoryTrack)

SpecTrack == InitTrack /\ [][NextTrack]_vars

Spec == Init /\ [][Next]_vars

SpecEnd == InitEnd /\ [][NextEnd]_vars

----------------------------------------------------------------------------
(* A game in progress on the market board.  The game starts from the       *)
(* state that play leaves: new_game followed by the apply calls of one of  *)
(* the openings, all by the player whose turn it is.                       *)

\* the outcome of the last of a sequence of apply calls, each
\* <<actor_id, action>>, made on the state the call before it left; the
\* sequence stops at the first call that raises
RECURSIVE play(_, _, _)
play(outcome, script, cfg) ==
    IF script = <<>> \/ outcome.raised # None THEN outcome
    ELSE play(apply(outcome.state, script[1][2], script[1][1], cfg),
              Tail(script), cfg)

\* new_game, as the outcome no call has changed yet
Started(cfg) ==
    [state |-> new_game(2, cfg), raised |-> None, error_msg |-> None,
     events |-> None]

MarketConfig == DefaultConfig(MarketLayout, BothTriggers)

\* player_1 moves one rat
P1Move(n, steps) ==
    <<"player_1", create_move_action(<<<<RatIdOf[1][n], steps>>>>)>>
\* player_1 steals with one rat
P1Steal(shop_kind, item, n) ==
    <<"player_1", create_steal_action(shop_kind, item, RatIdOf[1][n])>>

Openings ==
    {\* the x2 effect stolen with an empty inventory
     <<P1Move(1, 2), P1Steal("SHOP_FROG", "x2", 1)>>,
     \* 2 soda, the x2 effect active and a rat at the frog shop
     <<P1Move(1, 1), P1Move(1, 1), P1Steal("SHOP_FROG", "x2", 1), P1Move(2, 2)>>,
     \* a full inventory and the x2 effect active
     <<P1Move(1, 1), P1Move(1, 2), P1Move(2, 2), P1Steal("SHOP_FROG", "x2", 2)>>,
     \* capacity 4, an empty inventory and the x2 effect active
     <<P1Move(1, 2), P1Move(1, 4), P1Steal("SHOP_MOLE", "capacity", 1),
       P1Move(2, 2), P1Steal("SHOP_FROG", "x2", 2)>>,
     \* 2 tin cans and a rat at the mole shop
     <<P1Move(1, 5), P1Move(1, 2), P1Move(2, 5), P1Move(2, 1)>>,
     \* 2 cheese and a rat at the crow shop
     <<P1Move(1, 3), P1Move(1, 1)>>,
     \* 2 soda and a rat at the frog shop
     <<P1Move(1, 1), P1Move(1, 1)>>,
     \* the second player's turn
     <<P1Move(1, 3), <<"player_1", create_end_turn_action>>>>}

\* the number of apply calls explored after an opening
MaxDepthMarket == 2

\* the outcomes of the openings
OpeningOutcomes ==
    {play(Started(MarketConfig), script, MarketConfig) : script \in Openings}

\* the history length up to which the game at hand is explored: the length
\* of the longest opening it started with, plus MaxDepthMarket
MarketLimit ==
    SetMax({0} \cup
           {Len(script) + MaxDepthMarket :
               script \in {o \in Openings :
                              /\ Len(o) <= Len(history)
                              /\ \A k \in 1..Len(o) :
                                    /\ history[k].action.actor = o[k][1]
                                    /\ history[k].action.type = o[k][2].type
                                    /\ history[k].action.payload = o[k][2].payload}})

MoveInputsMarket ==
    Singles({"player_1_rat_1", "player_1_rat_2", "player_2_rat_1"}, 1..5)
        \cup {<<<<"player_1_rat_1", 1>>, <<"player_1_rat_2", 3>>>>,
              <<<<"player_1_rat_2", 3>>, <<"player_1_rat_1", 1>>>>,
              <<<<"player_1_rat_1", 2>>, <<"player_1_rat_2", 2>>>>,
              <<<<"player_1_rat_1", 1>>, <<"player_1_rat_2", 2>>>>}

ShopInputsMarket == {"SHOP_MOLE", "SHOP_FROG", "SHOP_CROW", "RESOURCE"}
ItemInputsMarket == {"capacity", "x2", "bottlecap"}
PayerInputsMarket == {"player_1_rat_1", "player_1_rat_2", "player_2_rat_1"}

ApplyBuyMarket(limit) ==
    \E actor_id \in Actors, shop_kind \in ShopInputsMarket,
       item \in ItemInputsMarket, payer_rat_id \in PayerInputsMarket :
        /\ Explored(create_buy_action(shop_kind, item, payer_rat_id),
                    actor_id, limit)
        /\ Call(create_buy_action(shop_kind, item, payer_rat_id), actor_id)

ApplyStealMarket(limit) ==
    \E actor_id \in Actors, shop_kind \in ShopInputsMarket,
       item \in ItemInputsMarket, payer_rat_id \in PayerInputsMarket :
        /\ Explored(create_steal_action(shop_kind, item, payer_rat_id),
                    actor_id, limit)
        /\ Call(create_steal_action(shop_kind, item, payer_rat_id), actor_id)

InitMarket ==
    \E o \in OpeningOutcomes :
        /\ board = o.state.board
        /\ players = o.state.players
        /\ rocket = o.state.rocket
        /\ current_player = o.state.current_player
        /\ round = o.state.round
        /\ history = o.state.history
        /\ game_over = o.state.game_over
        /\ winner_ids = o.state.winner_ids
        /\ config = MarketConfig
        /\ raised = o.raised
        /\ returned = o.events

NextMarket ==
    \/ ApplyMove(MarketLimit, MoveInputsMarket)
    \/ ApplyBuyMarket(MarketLimit)
    \/ ApplyStealMarket(MarketLimit)
    \/ ApplyBuildRocket(MarketLimit)
    \/ ApplyDonateCheese(MarketLimit)
    \/ ApplyEndTurn(MarketLimit)

SpecMarket == InitMarket /\ [][NextMarket]_vars

\* every opening is a sequence of accepted calls
OpeningsAccepted ==
    \A script \in Openings :
        LET o == play(Started(MarketConfig), script, MarketConfig)
        IN  o.raised = None /\ Len(o.state.history) = Len(script)

----------------------------------------------------------------------------
(* A game of three on the final board or on the yard board, under each of  *)
(* the scoring rules a Config can carry.  The game starts from the state   *)
(* that play leaves after one of the openings below: on the final board,   *)
(* in all openings but the last, player_1 has three rats on the rocket and *)
(* the fourth on the board, and the other players have earned what the     *)
(* opening says; on the yard board all five rocket parts have been built.  *)

\* new_game for num_players players, as the outcome no call has changed yet
StartedWith(num_players, cfg) ==
    [state |-> new_game(num_players, cfg), raised |-> None, error_msg |-> None,
     events |-> None]

\* scoring_rules dictionaries: the default one and one per rule changed
ScoringRuleSets ==
    {scoring_rules,
     [scoring_rules EXCEPT !.rocket_parts = FALSE],
     [scoring_rules EXCEPT !.bottlecaps = 0],
     [scoring_rules EXCEPT !.bottlecaps = 3],
     [scoring_rules EXCEPT !.lightbulb_track = FALSE],
     [scoring_rules EXCEPT !.remaining_resources = TRUE]}

FinalConfig(layout, rules) ==
    [DefaultConfig(layout, BothTriggers) EXCEPT !.scoring_rules = rules]

\* calls of the scripts: player p moves its n-th rat, donates, buys a
\* bottlecap, builds a part, ends its turn
Mv(p, n, steps) == <<PlayerIdOf[p], create_move_action(<<<<RatIdOf[p][n], steps>>>>)>>
Dn(p, amount) == <<PlayerIdOf[p], create_donate_cheese_action(amount)>>
Cap(p, n) ==
    <<PlayerIdOf[p], create_buy_action("SHOP_CROW", "bottlecap", RatIdOf[p][n])>>
Bd(p, part) == <<PlayerIdOf[p], create_build_rocket_action(part)>>
\* player p steals a capacity upgrade with its n-th rat
St(p, n) ==
    <<PlayerIdOf[p], create_steal_action("SHOP_MOLE", "capacity", RatIdOf[p][n])>>
End(p) == <<PlayerIdOf[p], create_end_turn_action>>

\* player_1 boards three rats, collecting 3 soda on the way
ThreeAboard ==
    <<Mv(1, 1, 5), Mv(1, 1, 1), Mv(1, 2, 5), Mv(1, 2, 1), Mv(1, 3, 5), Mv(1, 3, 1)>>

FinalOpenings ==
    {\* player_2 donated 2 cheese (3 points), player_1 has no points
     ThreeAboard \o <<Mv(1, 4, 5), End(1), Mv(2, 1, 1), Dn(2, 2), End(2), End(3)>>,
     \* player_1 is on track level 1 (1 point), player_2 donated 2 cheese
     ThreeAboard \o <<Mv(1, 4, 3), End(1), Mv(2, 1, 1), Dn(2, 2), End(2), End(3)>>,
     \* player_2 and player_3 both donated 2 cheese, no rat of theirs aboard
     ThreeAboard \o <<Mv(1, 4, 5), End(1), Mv(2, 1, 1), Dn(2, 2), Mv(2, 1, 1),
                      End(2), Mv(3, 1, 1), Dn(3, 2), End(3)>>,
     \* both donated 2 cheese and player_2 has a rat aboard
     ThreeAboard \o <<Mv(1, 4, 4), End(1), Mv(2, 1, 1), Dn(2, 2), Mv(2, 1, 5),
                      End(2), Mv(3, 1, 1), Dn(3, 2), End(3)>>,
     \* player_2 holds a bottlecap, built FIN_A, is on track level 1, has a
     \* rat aboard and 3 resources left
     ThreeAboard \o <<End(1), Mv(2, 1, 1), Mv(2, 1, 1), Cap(2, 1),
                      Mv(2, 2, 4), Mv(2, 2, 1), Bd(2, "FIN_A"), Mv(2, 1, 1),
                      Mv(2, 1, 1), Mv(2, 2, 1), Mv(2, 1, 1), Mv(2, 3, 1),
                      End(2), End(3), Mv(1, 4, 4)>>,
     \* player_1 built FIN_A, then FIN_B
     <<Mv(1, 1, 4), Mv(1, 1, 1), Bd(1, "FIN_A"), Mv(1, 2, 1), Mv(1, 2, 3),
       Bd(1, "FIN_B")>>}

\* on the yard board: player_1 builds ENGINE, FIN_A and NOSE and boards
\* three rats, player_2 builds FIN_B and TANK and is left with 2 tin cans
\* and 2 soda
AllPartsBuilt ==
    <<Mv(1, 1, 1), St(1, 1), Mv(1, 1, 1), St(1, 1),
      Mv(1, 1, 2), Mv(1, 1, 1), Mv(1, 1, 3), Bd(1, "ENGINE"),
      Mv(1, 2, 2), Mv(1, 2, 3), Bd(1, "FIN_A"),
      Mv(1, 1, 1), Mv(1, 3, 2), Mv(1, 3, 2), Bd(1, "NOSE"),
      Mv(1, 2, 2), Mv(1, 3, 3), End(1),
      Mv(2, 1, 1), St(2, 1),
      Mv(2, 1, 4), Mv(2, 2, 2), Bd(2, "FIN_B"),
      Mv(2, 1, 1), Mv(2, 2, 1), Bd(2, "TANK"),
      Mv(2, 1, 2), Mv(2, 2, 2), Mv(2, 3, 2)>>

\* the games explored: a board and an opening on it
FinalGames ==
    {<<FinalLayout, script>> : script \in FinalOpenings}
        \cup {<<YardLayout, AllPartsBuilt>>}

\* the number of apply calls explored after an opening
MaxDepthFinal == 2

\* the history length up to which the game at hand is explored: the length
\* of the longest opening it started with, plus MaxDepthFinal
FinalLimit ==
    SetMax({0} \cup
           {Len(script) + MaxDepthFinal :
               script \in {o \in {game[2] : game \in FinalGames} :
                              /\ Len(o) <= Len(history)
                              /\ \A k \in 1..Len(o) :
                                    /\ history[k].action.actor = o[k][1]
                                    /\ history[k].action.type = o[k][2].type
                                    /\ history[k].action.payload = o[k][2].payload}})

MoveInputsFinal ==
    Singles({"player_1_rat_4", "player_1_rat_1", "player_2_rat_1",
             "player_3_rat_1"}, 1..5)
        \cup {<<<<"player_1_rat_4", 1>>, <<"player_1_rat_4", 1>>>>,
              <<<<"player_1_rat_4", 2>>, <<"player_1_rat_3", 1>>>>}

InitFinal ==
    \E rules \in ScoringRuleSets, game \in FinalGames :
        \E o \in {play(StartedWith(3, FinalConfig(game[1], rules)), game[2],
                       FinalConfig(game[1], rules))} :
            /\ board = o.state.board
            /\ players = o.state.players
            /\ rocket = o.state.rocket
            /\ current_player = o.state.current_player
            /\ round = o.state.round
            /\ history = o.state.history
            /\ game_over = o.state.game_over
            /\ winner_ids = o.state.winner_ids
            /\ config = FinalConfig(game[1], rules)
            /\ raised = o.raised
            /\ returned = o.events

NextFinal ==
    \/ ApplyMove(FinalLimit, MoveInputsFinal)
    \/ ApplyBuyMarket(FinalLimit)
    \/ ApplyStealMarket(FinalLimit)
    \/ ApplyBuildRocket(FinalLimit)
    \/ ApplyDonateCheese(FinalLimit)
    \/ ApplyEndTurn(FinalLimit)

SpecFinal == InitFinal /\ [][NextFinal]_vars

\* every final opening is a sequence of accepted calls
FinalOpeningsAccepted ==
    \A rules \in ScoringRuleSets, game \in FinalGames :
        LET o == play(StartedWith(3, FinalConfig(game[1], rules)), game[2],
                      FinalConfig(game[1], rules))
        IN  o.raised = None /\ Len(o.state.history) = Len(game[2])

----------------------------------------------------------------------------
(* A game whose state was written to before the call, as                   *)
(* test_invariant_checking_after_action of tests/test_rules_integration.py *)
(* does: the first player is handed resources and the state may be made    *)
(* inconsistent in one or more ways (a capacity below what the player      *)
(* holds, a negative score, a rocket part whose recorded builder does not  *)
(* have it or is no player of the game).                                   *)

CapacityInputs == {3, 2}
ScoreInputs == {0, -1}
BuilderInputs == {None, "player_2", "player_9"}

InitTampered ==
    \E capacity \in CapacityInputs, score \in ScoreInputs,
       builder_id \in BuilderInputs :
        \E cfg \in {DefaultConfig(WorkshopLayout, BothTriggers)} :
            LET g == new_game(2, cfg)
            IN  /\ board = g.board
                /\ players = [g.players EXCEPT
                                 ![1].inv.res["TIN_CAN"] = 2,
                                 ![1].inv.res["SODA"] = 1,
                                 ![1].inv.capacity = capacity,
                                 ![1].score = score]
                /\ rocket = [g.rocket EXCEPT !["NOSE"] = builder_id]
                /\ current_player = g.current_player
                /\ round = g.round
                /\ history = g.history
                /\ game_over = g.game_over
                /\ winner_ids = g.winner_ids
                /\ config = cfg
                /\ raised = None
                /\ returned = None

MoveInputsTampered ==
    Singles({"player_1_rat_1", "player_1_rat_2", "player_2_rat_1"}, {1, 2, 4, 6})
        \cup {<<<<"player_1_rat_1", 1>>, <<"player_1_rat_2", 2>>>>}

NextTampered ==
    \/ ApplyMove(MaxHistoryTampered, MoveInputsTampered)
    \/ ApplyBuildRocket(MaxHistoryTampered)
    \/ ApplyEndTurn(MaxHistoryTampered)

SpecTampered == InitTampered /\ [][NextTampered]_vars

----------------------------------------------------------------------------
(* check_and_trigger_endgame as a function of the state it is handed.  The *)
(* states are built as tests/test_endgame_integration.py builds them, from *)
(* the constructors: two players, each with some rats on the rocket and a  *)
(* set of built parts, the rocket left empty.  The one action is a call of *)
(* the function, which may be repeated.                                    *)

\* numbers of rats on the rocket and sets of built parts a player is given
AboardInputs == {0, 3, 4}
BuiltInputs ==
    {{}, {"NOSE", "TANK", "ENGINE"}, {"NOSE", "TANK", "ENGINE", "FIN_A"},
     {"NOSE", "TANK", "ENGINE", "FIN_A", "FIN_B"}}

\* Player(...) with four rats, the first aboard of them on the rocket
PlayerWith(player_id, aboard, built, cfg) ==
    [create_player(player_id, cfg) EXCEPT
        !.rats = [n \in 1..4 |->
                     IF n <= aboard
                     THEN [Rat(rat_id_str(player_id, n), player_id,
                               cfg.launch_index) EXCEPT !.on_rocket = TRUE]
                     ELSE Rat(rat_id_str(player_id, n), player_id, cfg.start_index)],
        !.built_parts = built]

InitTrigger ==
    \E a1, a2 \in AboardInputs, b1, b2 \in BuiltInputs :
        \E cfg \in {DefaultConfig(LaunchLayout, BothTriggers)} :
            /\ board = build_standard_board(cfg)
            /\ players = <<PlayerWith("player_1", a1, b1, cfg),
                           PlayerWith("player_2", a2, b2, cfg)>>
            /\ rocket = [p \in RocketPart |-> None]
            /\ current_player = 0
            /\ round = 1
            /\ history = <<>>
            /\ game_over = FALSE
            /\ winner_ids = None
            /\ config = cfg
            /\ raised = None
            /\ returned = None

\* one call of check_and_trigger_endgame(state, config)
CheckAndTriggerEndgame ==
    \E e \in {check_and_trigger_endgame(GameState, config)} :
        /\ players' = e.state.players
        /\ history' = e.state.history
        /\ game_over' = e.state.game_over
        /\ winner_ids' = e.state.winner_ids
        /\ returned' = e.results
        /\ UNCHANGED <<board, rocket, current_player, round, config, raised>>

NextTrigger == CheckAndTriggerEndgame

SpecTrigger == InitTrigger /\ [][NextTrigger]_vars

----------------------------------------------------------------------------
(* Properties.  A property about "every call" is stated over the calls of  *)
(* the input sets, made in the state at hand: ForAllCalls(P) says P of     *)
(* every actor id and every action of every kind.                          *)

ForAllCalls(P(_, _)) ==
    \A actor_id \in Actors :
        /\ \A moves \in MoveInputs \cup MoveInputsEnd :
              P(actor_id, create_move_action(moves))
        /\ \A shop_kind \in ShopInputs, item \in ItemInputs,
              payer_rat_id \in PayerInputs :
              /\ P(actor_id, create_buy_action(shop_kind, item, payer_rat_id))
              /\ P(actor_id, create_steal_action(shop_kind, item, payer_rat_id))
        /\ \A part \in RocketPart : P(actor_id, create_build_rocket_action(part))
        /\ \A amount \in DonateInputs :
              P(actor_id, create_donate_cheese_action(amount))
        /\ P(actor_id, create_end_turn_action)

CurrentId == current_player_obj(GameState).player_id

\* the last call returned normally, so the state is the one an accepted
\* action left
AfterAccepted == raised = None /\ history # <<>>

LastEntry == history[Len(history)]

InvalidAction(msg) == <<"Invalid action", msg>>

\* C1: whenever the validator rejects a call (any actor, any kind of action,
\* any reason), apply raises ValueError with the validator's reason and
\* leaves the whole game state, history included, as it was.
C1_RejectedCallChangesNothing ==
    ForAllCalls(LAMBDA actor_id, action :
        LET v == validate(GameState, action, actor_id, config)
            r == apply(GameState, action, actor_id, config)
        IN  ~v.is_valid =>
                /\ r.raised = "ValueError"
                /\ r.error_msg = InvalidAction(v.error_msg)
                /\ r.events = None
                /\ r.state = GameState)

\* a call was rejected in a game that has a history and resources to lose
C1_Witness ==
    /\ raised = "ValueError"
    /\ history # <<>>
    /\ \E i \in 1..Len(players) : total_resources(players[i].inv) > 0

\* C2 as stated: once the game is over, every call by any actor id is
\* rejected with the reason 'Game is already over' and changes nothing.
C2_EveryCallRejectedAsGameOver ==
    game_over =>
        ForAllCalls(LAMBDA actor_id, action :
            LET r == apply(GameState, action, actor_id, config)
            IN  /\ r.raised = "ValueError"
                /\ r.error_msg = InvalidAction("Game is already over")
                /\ r.state = GameState)

\* C2, amended: once the game is over, every call by any actor id is
\* rejected and changes nothing; the reason is 'Game is already over' when
\* the actor is the current player, not that player's turn when it is
\* another player, and player not found when the id names no player.
C2_EveryCallRejectedAfterGameOver ==
    game_over =>
        ForAllCalls(LAMBDA actor_id, action :
            LET r == apply(GameState, action, actor_id, config)
            IN  /\ r.raised = "ValueError"
                /\ r.state = GameState
                /\ r.error_msg = InvalidAction(
                       IF actor_id = CurrentId THEN "Game is already over"
                       ELSE IF player_index(GameState, actor_id) # 0
                           THEN "It's not that player's turn"
                       ELSE "Player not found"))

\* a call was made, and rejected, after the game had ended
C2_Witness == game_over /\ raised = "ValueError"

\* C3: a call whose actor is not the current player is rejected and changes
\* nothing, so only the current player's calls change the state; while the
\* game is not over the reason, for an actor who is a player, is that it is
\* not that player's turn.
C3_OnlyCurrentPlayerActs ==
    ForAllCalls(LAMBDA actor_id, action :
        LET r == apply(GameState, action, actor_id, config)
        IN  actor_id # CurrentId =>
                /\ r.raised = "ValueError"
                /\ r.state = GameState
                /\ (~game_over /\ player_index(GameState, actor_id) # 0) =>
                       r.error_msg = InvalidAction("It's not that player's turn"))

\* it is the second player's turn, the first player has a rat its own Move
\* would move, and a call was rejected
C3_Witness ==
    /\ ~game_over
    /\ current_player = 1
    /\ raised = "ValueError"
    /\ validate([GameState EXCEPT !.current_player = 0],
                create_move_action(<<<<"player_1_rat_1", 1>>>>),
                "player_1", config).is_valid

\* C4: in every reachable state each player holds at most as many resource
\* units as the capacity of the inventory.
C4_ResourcesWithinCapacity ==
    \A i \in 1..Len(players) :
        total_resources(players[i].inv) <= players[i].inv.capacity

\* an accepted Move of one rat landed on a resource space and gained less
\* than the space gives, filling the inventory
C4_Witness ==
    /\ AfterAccepted
    /\ LastEntry.action.type = "MOVE"
    /\ Len(LastEntry.action.payload.moves) = 1
    /\ \E i \in 1..Len(players) :
          /\ players[i].player_id = LastEntry.action.actor
          /\ total_resources(players[i].inv) = players[i].inv.capacity
    /\ \E k \in 1..Len(LastEntry.events) :
          /\ LastEntry.events[k].type = "RESOURCE_GAINED"
          /\ LastEntry.events[k].payload.amount <
                 get_space(board, LastEntry.derived_data.landing_positions[1][2])
                     .payload.amount

\* C5: from new_game on, the invariant checker finds nothing wrong with any
\* state, and no call the validator accepts ends with the ValueError of the
\* invariant checker.
C5_InvariantCheckerNeverRaises ==
    /\ check_invariants(GameState) = None
    /\ ForAllCalls(LAMBDA actor_id, action :
           validate(GameState, action, actor_id, config).is_valid =>
               apply(GameState, action, actor_id, config).raised # "ValueError")

\* an accepted action left a state with a built part, spent resources and a
\* wrapped turn order
C5_Witness ==
    /\ AfterAccepted
    /\ \E part \in RocketPart : rocket[part] # None
    /\ current_player = 1

FourthRatOnRocket ==
    \E i \in 1..Len(players) : rats_on_rocket_count(players[i]) >= 4

EighthPartBuilt ==
    SumSeq([i \in 1..Len(players) |-> Cardinality(players[i].built_parts)]) >= 8

\* C6: with both triggers enabled, after every accepted action the game is
\* over exactly when a player has 4 rats on the rocket or 8 parts are built
\* in all; and the accepted action after which a player has 4 rats on the
\* rocket is a Move that set winner_ids and returned, last, the game-ended
\* event with the trigger fourth_rat_on_rocket.
C6_GameEndsAtTheBoundary ==
    (config.endgame_triggers = BothTriggers /\ AfterAccepted) =>
        /\ game_over <=> (FourthRatOnRocket \/ EighthPartBuilt)
        /\ FourthRatOnRocket =>
              /\ LastEntry.action.type = "MOVE"
              /\ winner_ids # None
              /\ returned # <<>>
              /\ returned[Len(returned)].type = "GAME_ENDED"
              /\ returned[Len(returned)].payload.trigger = "fourth_rat_on_rocket"
              /\ returned[Len(returned)].payload.winner_ids = winner_ids

\* under the default triggers a Move has just put a fourth rat on the rocket
C6_Witness ==
    /\ config.endgame_triggers = BothTriggers
    /\ AfterAccepted
    /\ FourthRatOnRocket
    /\ game_over

\* C7 as stated: with fourth_rat_on_rocket switched off, the accepted Move
\* after which a player has 4 rats on the rocket leaves the game not over
\* and returns no game-ended event.
C7_DisabledTriggerDoesNotEndGame ==
    (/\ ~config.endgame_triggers.fourth_rat_on_rocket
     /\ AfterAccepted
     /\ FourthRatOnRocket) =>
        /\ ~game_over
        /\ \A k \in 1..Len(returned) : returned[k].type # "GAME_ENDED"

\* the player position of a part's recorded builder
BuilderIndex(part) == player_index(GameState, rocket[part])

\* C8: a BuildRocket that succeeds records its actor as the part's builder
\* and puts the part in the actor's built parts; and from a state where a
\* part has a builder, every step keeps that builder and keeps the part in
\* the builder's built parts, and a BuildRocket of that part is rejected
\* whoever submits it.
C8_BuiltPartStaysWithItsBuilder ==
    [][/\ \A part \in RocketPart :
              rocket[part] # None =>
                  /\ rocket'[part] = rocket[part]
                  /\ part \in players'[BuilderIndex(part)].built_parts
                  /\ \A actor_id \in Actors :
                        ~validate(GameState, create_build_rocket_action(part),
                                  actor_id, config).is_valid
       /\ (/\ raised' = None
           /\ Len(history') > Len(history)
           /\ history'[Len(history')].action.type = "BUILD_ROCKET") =>
              LET built == history'[Len(history')].action
              IN  /\ rocket'[built.payload.part] = built.actor
                  /\ \E i \in 1..Len(players) :
                        /\ players'[i].player_id = built.actor
                        /\ built.payload.part \in players'[i].built_parts
      ]_vars

\* the first player built a part and the turn has passed to the second
C8_Witness ==
    /\ \E part \in RocketPart :
          rocket[part] = "player_1" /\ part \in players[1].built_parts
    /\ current_player = 1
    /\ raised = "ValueError"

\* C9: in every reachable state each player's built parts are exactly the
\* parts whose recorded builder is that player.
C9_BuiltPartsMatchRocket ==
    \A i \in 1..Len(players) :
        players[i].built_parts =
            {part \in RocketPart : rocket[part] = players[i].player_id}

\* a BuildRocket has just been accepted
C9_Witness ==
    /\ AfterAccepted
    /\ LastEntry.action.type = "BUILD_ROCKET"
    /\ rocket[LastEntry.action.payload.part] = LastEntry.action.actor

\* the shapes of move list C10 allows
ShapeAllowed(moves) ==
    \/ Len(moves) = 1 /\ moves[1][2] \in 1..5
    \/ /\ Len(moves) \in 2..4
       /\ \A i \in 1..Len(moves) : moves[i][2] \in 1..3

----------------------------------------------------------------------------
(* Moves: where the rats of a Move land, told from the state alone. *)

\* the on-board rats of all players, as a set
BoardRats ==
    UNION {{players[i].rats[k] :
               k \in {n \in 1..Len(players[i].rats) : ~players[i].rats[n].on_rocket}}
           : i \in 1..Len(players)}

\* the actor's on-board rat with the id rat_id, as a set of 0 or 1 rats
RatOf(actor_id, rat_id) ==
    {r \in BoardRats : r.owner_id = actor_id /\ r.rat_id = rat_id}

\* every move names an on-board rat of the actor
RatsFound(actor_id, moves) ==
    \A i \in 1..Len(moves) : RatOf(actor_id, moves[i][1]) # {}

\* the index the rat of a move lands on: its position plus the steps,
\* clamped to the last space (the boards explored have no shortcuts)
LandingIndex(actor_id, move) ==
    LET rat == CHOOSE r \in RatOf(actor_id, move[1]) : TRUE
        last == Cardinality(DOMAIN board.spaces) - 1
    IN  IF rat.space_index + move[2] < last THEN rat.space_index + move[2]
        ELSE last

LandingColours(actor_id, moves) ==
    {board.spaces[LandingIndex(actor_id, moves[i])].color : i \in 1..Len(moves)}

\* the Moves of the input sets the current player can submit that pass the
\* checks on shape and on the rats named
CheckedMoves ==
    {moves \in MoveInputs \cup MoveInputsEnd :
        ShapeAllowed(moves) /\ RatsFound(CurrentId, moves)}

OccupiedByOther(actor_id, moves) ==
    \E i \in 1..Len(moves) : \E r \in BoardRats :
        /\ r.space_index = LandingIndex(actor_id, moves[i])
        /\ \A j \in 1..Len(moves) : r.rat_id # moves[j][1]

\* two moves of the Move have the same landing index
SharedLanding(actor_id, moves) ==
    \E i, j \in 1..Len(moves) :
        /\ i # j
        /\ LandingIndex(actor_id, moves[i]) = LandingIndex(actor_id, moves[j])

\* C12 as stated: a Move of the current player that passes the checks on
\* shape, rats and colour is rejected exactly when a landing index holds an
\* on-board rat that is not part of the Move or two of its rats land on the
\* same index; a landing index held only by a rat the same Move moves away
\* is no reason to reject.
C12_OccupancySparesMovedRats ==
    ~game_over =>
        \A moves \in CheckedMoves :
            Cardinality(LandingColours(CurrentId, moves)) = 1 =>
                (~validate(GameState, create_move_action(moves), CurrentId,
                           config).is_valid
                   <=> (\/ OccupiedByOther(CurrentId, moves)
                        \/ SharedLanding(CurrentId, moves)))

----------------------------------------------------------------------------
(* Landing on resource spaces. *)

Min(a, b) == IF a < b THEN a ELSE b

CurrentInv == current_player_obj(GameState).inv

\* the inventory of the player at hand in the state an apply call left
InvAfter(r) == r.state.players[current_player + 1].inv

\* the Moves of the market inputs that name each rat once and that the
\* validator accepts from the current player
AcceptedMoves ==
    {moves \in MoveInputsMarket :
        /\ \A i, j \in 1..Len(moves) : moves[i][1] = moves[j][1] => i = j
        /\ validate(GameState, create_move_action(moves), CurrentId, config).is_valid}

\* the spaces the rats of a Move land on, in the order of the Move
LandingSpaces(moves) ==
    [i \in 1..Len(moves) |-> board.spaces[LandingIndex(CurrentId, moves[i])]]

\* what a resource space offers to an inventory
Offered(inv, space) ==
    IF inv.x2_active THEN 2 * space.payload.amount ELSE space.payload.amount

\* the inventory after landing on the spaces one after the other: a
\* resource space adds what it offers as far as there is room and ends the
\* x2 effect, any other space leaves the inventory alone
RECURSIVE InvAfterLandings(_, _)
InvAfterLandings(inv, spaces) ==
    IF spaces = <<>> THEN inv
    ELSE IF Head(spaces).kind # "RESOURCE" THEN InvAfterLandings(inv, Tail(spaces))
    ELSE InvAfterLandings(
             [inv EXCEPT !.res[Head(spaces).payload.resource] =
                             @ + Min(Offered(inv, Head(spaces)),
                                     inv.capacity - total_resources(inv)),
                         !.x2_active = FALSE],
             Tail(spaces))

X2Consumed(events) ==
    {k \in 1..Len(events) :
        events[k].type = "INVENTORY_CHANGED" /\ events[k].payload.x2_consumed}

\* C13: an accepted Move landing on resource spaces gives, on the first of
\* them, twice the base amount if the x2 effect is active and the base
\* amount otherwise, and on every later one the base amount; after a
\* landing on a resource space the x2 effect is off, also when the
\* inventory was full and nothing was added, and it was consumed exactly
\* once.
C13_X2DoublesOneLanding ==
    ~game_over =>
        \A moves \in AcceptedMoves :
            LET r == apply(GameState, create_move_action(moves), CurrentId, config)
                on_resource == \E i \in 1..Len(moves) :
                                  LandingSpaces(moves)[i].kind = "RESOURCE"
            IN  /\ r.raised = None
                /\ InvAfter(r) = InvAfterLandings(CurrentInv, LandingSpaces(moves))
                /\ on_resource => ~InvAfter(r).x2_active
                /\ Cardinality(X2Consumed(r.events)) =
                       IF on_resource /\ CurrentInv.x2_active THEN 1 ELSE 0

\* the amounts of the resource-gained events of an event list
GainedAmounts(events) ==
    LET gained == SelectSeq(events, LAMBDA e : e.type = "RESOURCE_GAINED")
    IN  [k \in 1..Len(gained) |-> gained[k].payload.amount]

\* the entry is a Move of one rat onto a resource space
ResourceLanding(entry) ==
    /\ entry.action.type = "MOVE"
    /\ Len(entry.action.payload.moves) = 1
    /\ board.spaces[entry.derived_data.landing_positions[1][2]].kind = "RESOURCE"

BaseAmount(entry) ==
    board.spaces[entry.derived_data.landing_positions[1][2]].payload.amount

\* a rat landed on a resource space under the x2 effect and twice the base
\* amount was gained; later, with no shop visited in between, a rat landed
\* on a resource space and the base amount was gained
C13_Witness ==
    \E k \in 1..Len(history) : \E n \in (k + 1)..Len(history) :
        /\ ResourceLanding(history[k])
        /\ X2Consumed(history[k].events) # {}
        /\ GainedAmounts(history[k].events) = <<2 * BaseAmount(history[k])>>
        /\ \A m \in k..n : history[m].action.type = "MOVE"
        /\ ResourceLanding(history[n])
        /\ X2Consumed(history[n].events) = {}
        /\ GainedAmounts(history[n].events) = <<BaseAmount(history[n])>>

----------------------------------------------------------------------------
(* Turns. *)

EndTurns == {k \in 1..Len(history) : history[k].action.type = "END_TURN"}

\* C15: an EndTurn of the current player makes the next player in the list
\* the current one, wrapping to the first, and adds 1 to round exactly when
\* it wraps; its turn-ended event carries the round from before, and nothing
\* else of the game changes.  In the game of 2 players, after n EndTurns the
\* current player is n mod 2 and the round is 1 + n div 2: player 1 in round
\* 1 after one EndTurn, player 0 in round 2 after two.
C15_EndTurnCyclesPlayersAndRounds ==
    /\ ~game_over =>
          LET r == apply(GameState, create_end_turn_action, CurrentId, config)
              nxt == (current_player + 1) % Len(players)
          IN  /\ r.raised = None
              /\ r.state.current_player = nxt
              /\ r.state.round = IF nxt = 0 THEN round + 1 ELSE round
              /\ r.events = <<create_turn_ended_event(CurrentId, round)>>
              /\ r.state.players = players
              /\ r.state.rocket = rocket
              /\ r.state.board = board
              /\ r.state.game_over = game_over
    /\ current_player = Cardinality(EndTurns) % 2
    /\ round = 1 + Cardinality(EndTurns) \div 2

\* two EndTurns were accepted, one of each player, and the second one
\* brought the first player back in round 2
C15_Witness ==
    /\ AfterAccepted
    /\ Cardinality(EndTurns) = 2
    /\ LastEntry.action.type = "END_TURN"
    /\ LastEntry.action.actor = "player_2"
    /\ LastEntry.events[1].payload.round_number = 1
    /\ current_player = 0
    /\ round = 2

----------------------------------------------------------------------------
(* Building, donating and the shops: what the current player's call is     *)
(* accepted for and what it changes.                                       *)

CurrentPlayer == current_player_obj(GameState)

\* the player at hand in the state an apply call left
PlayerAfter(r) == r.state.players[current_player + 1]

\* the inventory holds every (resource, amount) item of a price
Holds(inv, price) ==
    \A i \in 1..Len(price) : inv.res[price[i][1]] >= price[i][2]

\* the resources of an inventory less the items of a price
ResLess(inv, price) ==
    [res \in Resource |->
        inv.res[res] - SumSeq([i \in 1..Len(price) |->
                                  IF price[i][1] = res THEN price[i][2] ELSE 0])]

\* the resource-spent events of a price, in the order of its items
SpentEvents(price, purpose) ==
    [i \in 1..Len(price) |->
        create_resource_spent_event(CurrentId, price[i][1], price[i][2], purpose)]

\* the call changed nothing of the game but the player at hand, the rocket
\* and the history
OnlyActorChanged(r) ==
    /\ \A i \in 1..Len(players) :
          i # current_player + 1 => r.state.players[i] = players[i]
    /\ r.state.board = board
    /\ r.state.current_player = current_player
    /\ r.state.round = round

DonationPoints(amount) ==
    CASE amount = 1 -> 1 [] amount = 2 -> 3 [] amount = 3 -> 6 [] amount = 4 -> 10

\* C17: the current player's DonateCheese of an amount is accepted exactly
\* when the amount is a key of the donation table (1..4 by default) and the
\* player holds that much cheese; an accepted one takes exactly the amount
\* of cheese and adds the table's points (1 -> 1, 2 -> 3, 3 -> 6, 4 -> 10)
\* to the score, changing nothing else; 5 is rejected whatever is held.
C17_DonationFollowsTheTable ==
    ~game_over =>
        \A amount \in DonateInputs :
            LET action == create_donate_cheese_action(amount)
                v == validate(GameState, action, CurrentId, config)
                r == apply(GameState, action, CurrentId, config)
                in_table == amount \in DOMAIN config.donate_rewards
            IN  /\ in_table <=> amount \in 1..4
                /\ v.is_valid <=> (in_table /\ CurrentInv.res["CHEESE"] >= amount)
                /\ amount = 5 => ~v.is_valid
                /\ v.is_valid =>
                      /\ r.raised = None
                      /\ PlayerAfter(r).inv =
                             [CurrentInv EXCEPT !.res["CHEESE"] = @ - amount]
                      /\ PlayerAfter(r).score =
                             CurrentPlayer.score + DonationPoints(amount)
                      /\ PlayerAfter(r).rats = CurrentPlayer.rats
                      /\ PlayerAfter(r).built_parts = CurrentPlayer.built_parts
                      /\ r.state.rocket = rocket
                      /\ OnlyActorChanged(r)
                      /\ r.events =
                             <<create_resource_spent_event(
                                   CurrentId, "CHEESE", amount, "donation"),
                               create_score_changed_event(
                                   CurrentId, DonationPoints(amount),
                                   <<"donate", amount, "cheese">>,
                                   CurrentPlayer.score + DonationPoints(amount))>>

\* 4 cheese have just been donated for 10 points
C17_Witness ==
    /\ AfterAccepted
    /\ LastEntry.action.type = "DONATE_CHEESE"
    /\ LastEntry.action.payload.amount = 4
    /\ LastEntry.action.actor = CurrentId
    /\ CurrentPlayer.score = 10
    /\ CurrentInv.res["CHEESE"] = 0

\* the item a shop sells, as a set: empty for a space that is no shop
Sells(shop_kind) ==
    CASE shop_kind = "SHOP_MOLE" -> {"capacity"}
      [] shop_kind = "SHOP_FROG" -> {"x2"}
      [] shop_kind = "SHOP_CROW" -> {"bottlecap"}
      [] OTHER -> {}

\* the rat is an on-board rat of the current player and stands on a space
\* of the kind shop_kind, which sells the item
AtShopSelling(rat_id, shop_kind, item) ==
    /\ item \in Sells(shop_kind)
    /\ \E rat \in RatOf(CurrentId, rat_id) :
          board.spaces[rat.space_index].kind = shop_kind

\* the inventory with what the item gives
WithGain(inv, item) ==
    CASE item = "capacity" -> [inv EXCEPT !.capacity = @ + 1]
      [] item = "x2" -> [inv EXCEPT !.x2_active = TRUE]
      [] item = "bottlecap" -> [inv EXCEPT !.bottlecaps = @ + 1]

GainEvent(item) ==
    CASE item = "capacity" -> create_inventory_changed_event(CurrentId, 1, FALSE, FALSE)
      [] item = "x2" -> create_inventory_changed_event(CurrentId, 0, TRUE, FALSE)
      [] item = "bottlecap" -> create_inventory_changed_event(CurrentId, 0, FALSE, FALSE)

\* C18: the current player's Buy is accepted only if the payer rat is an
\* on-board rat of the player on a space of the requested shop kind, the
\* item is the one that shop sells and the player holds the configured
\* price; it is then accepted unless the item is x2 and x2 is active.  An
\* accepted Buy takes exactly the price from each priced resource, gives
\* the item (+1 capacity, x2 active, +1 bottlecap), leaves every rat where
\* it is and returns the resource-spent events and the inventory-changed
\* event.
C18_BuyPaysThePrice ==
    ~game_over =>
        \A shop_kind \in ShopInputsMarket, item \in ItemInputsMarket,
           payer_rat_id \in PayerInputsMarket :
            LET action == create_buy_action(shop_kind, item, payer_rat_id)
                v == validate(GameState, action, CurrentId, config)
                r == apply(GameState, action, CurrentId, config)
                eligible ==
                    /\ AtShopSelling(payer_rat_id, shop_kind, item)
                    /\ Holds(CurrentInv, config.shop_prices[shop_kind])
            IN  /\ v.is_valid => eligible
                /\ (eligible /\ ~(item = "x2" /\ CurrentInv.x2_active)) => v.is_valid
                /\ v.is_valid =>
                      /\ r.raised = None
                      /\ PlayerAfter(r).inv =
                             WithGain([CurrentInv EXCEPT !.res =
                                          ResLess(CurrentInv,
                                                  config.shop_prices[shop_kind])],
                                      item)
                      /\ PlayerAfter(r).rats = CurrentPlayer.rats
                      /\ PlayerAfter(r).score = CurrentPlayer.score
                      /\ PlayerAfter(r).built_parts = CurrentPlayer.built_parts
                      /\ r.state.rocket = rocket
                      /\ OnlyActorChanged(r)
                      /\ r.events =
                             SpentEvents(config.shop_prices[shop_kind], <<"buy", item>>)
                                 \o <<GainEvent(item)>>

\* the x2 effect has just been bought for the 2 soda the player held, and
\* the payer rat stands at the frog shop
C18_Witness ==
    /\ AfterAccepted
    /\ LastEntry.action.type = "BUY"
    /\ LastEntry.action.payload.item = "x2"
    /\ LastEntry.action.actor = CurrentId
    /\ CurrentInv.x2_active
    /\ CurrentInv.res["SODA"] = 0
    /\ AtShopSelling(LastEntry.action.payload.payer_rat_id, "SHOP_FROG", "x2")

\* C19: the current player's Steal is accepted exactly when the thief rat
\* is an on-board rat of the player on a space of the requested shop kind
\* and the item is the one that shop sells, unless the item is x2 and x2 is
\* active; what the player holds plays no part.  An accepted Steal leaves
\* every resource count as it was, gives the item, puts the thief rat on
\* the start index, moves no other rat and returns the inventory-changed
\* event and the sent-home event with the reason theft.
C19_StealIsFreeAndSendsHome ==
    ~game_over =>
        \A shop_kind \in ShopInputsMarket, item \in ItemInputsMarket,
           payer_rat_id \in PayerInputsMarket :
            LET action == create_steal_action(shop_kind, item, payer_rat_id)
                v == validate(GameState, action, CurrentId, config)
                r == apply(GameState, action, CurrentId, config)
            IN  /\ v.is_valid <=>
                      (/\ AtShopSelling(payer_rat_id, shop_kind, item)
                       /\ ~(item = "x2" /\ CurrentInv.x2_active))
                /\ v.is_valid =>
                      /\ r.raised = None
                      /\ PlayerAfter(r).inv.res = CurrentInv.res
                      /\ PlayerAfter(r).inv = WithGain(CurrentInv, item)
                      /\ Len(PlayerAfter(r).rats) = Len(CurrentPlayer.rats)
                      /\ \A n \in 1..Len(CurrentPlayer.rats) :
                            PlayerAfter(r).rats[n] =
                                IF CurrentPlayer.rats[n].rat_id = payer_rat_id
                                THEN [CurrentPlayer.rats[n] EXCEPT
                                         !.space_index = board.start_index]
                                ELSE CurrentPlayer.rats[n]
                      /\ PlayerAfter(r).score = CurrentPlayer.score
                      /\ PlayerAfter(r).built_parts = CurrentPlayer.built_parts
                      /\ r.state.rocket = rocket
                      /\ OnlyActorChanged(r)
                      /\ r.events =
                             <<GainEvent(item),
                               create_sent_home_event(CurrentId, payer_rat_id, "theft")>>

\* a bottlecap has just been stolen by a player who holds the crow shop's
\* price, and the thief rat is back on the start index
C19_Witness ==
    /\ AfterAccepted
    /\ LastEntry.action.type = "STEAL"
    /\ LastEntry.action.payload.target_item = "bottlecap"
    /\ LastEntry.action.actor = CurrentId
    /\ CurrentInv.bottlecaps = 1
    /\ Holds(CurrentInv, config.shop_prices["SHOP_CROW"])
    /\ \E rat \in RatOf(CurrentId, LastEntry.action.payload.payer_rat_id) :
          rat.space_index = board.start_index

\* C20: while the current player's x2 effect is active, a Buy of x2 and a
\* Steal of x2 at the frog shop are rejected with every rat, and for a rat
\* that stands at the frog shop the reason is that the effect is already
\* active, whatever the player holds; the rejected calls change nothing,
\* so the Buy spends no resource.
C20_NoSecondX2 ==
    (~game_over /\ CurrentInv.x2_active) =>
        \A payer_rat_id \in PayerInputsMarket :
            \A action \in {create_buy_action("SHOP_FROG", "x2", payer_rat_id),
                           create_steal_action("SHOP_FROG", "x2", payer_rat_id)} :
                LET v == validate(GameState, action, CurrentId, config)
                    r == apply(GameState, action, CurrentId, config)
                IN  /\ ~v.is_valid
                    /\ AtShopSelling(payer_rat_id, "SHOP_FROG", "x2") =>
                          v.error_msg = "X2 effect is already active"
                    /\ r.raised = "ValueError"
                    /\ r.state = GameState

\* the x2 effect is active, the player holds the frog shop's price and has
\* a rat at the frog shop, and a call has just been rejected
C20_Witness ==
    /\ ~game_over
    /\ CurrentInv.x2_active
    /\ Holds(CurrentInv, config.shop_prices["SHOP_FROG"])
    /\ \E payer_rat_id \in PayerInputsMarket :
          AtShopSelling(payer_rat_id, "SHOP_FROG", "x2")
    /\ raised = "ValueError"

----------------------------------------------------------------------------
(* Boarding the rocket, the final scores, the winners and the history. *)

\* the Moves of the input sets that name each rat once and that the
\* validator accepts from the current player
AcceptedOnceMoves ==
    {moves \in MoveInputs \cup MoveInputsEnd :
        /\ \A i, j \in 1..Len(moves) : moves[i][1] = moves[j][1] => i = j
        /\ validate(GameState, create_move_action(moves), CurrentId, config).is_valid}

\* the rat ids of a Move whose rats land on the LAUNCH_PAD space
Boarding(moves) ==
    {moves[i][1] : i \in {k \in 1..Len(moves) :
        board.spaces[LandingIndex(CurrentId, moves[k])].kind = "LAUNCH_PAD"}}

\* the rat with the id rat_id among the rats of a player
RatNamed(player, rat_id) ==
    {player.rats[k] : k \in {n \in 1..Len(player.rats) :
                                player.rats[n].rat_id = rat_id}}

\* C21: an accepted Move of the current player that lands a rat on the
\* LAUNCH_PAD space puts that rat on the rocket; when the owner had fewer
\* rats than max_rats, exactly one rat is added, the owner's, on the start
\* index and not on the rocket, and a new-rat-gained event is returned;
\* when the owner had max_rats rats, no rat is added and no such event is
\* returned.  No other player's rats change.
C21_BoardingSpawnsBelowMax ==
    \A moves \in AcceptedOnceMoves :
        Boarding(moves) # {} =>
            LET r == apply(GameState, create_move_action(moves), CurrentId, config)
                before == CurrentPlayer.rats
                after == PlayerAfter(r).rats
                gained == {k \in 1..Len(r.events) :
                              r.events[k].type = "NEW_RAT_GAINED"}
            IN  /\ r.raised = None
                /\ \A rat_id \in Boarding(moves) :
                      \A rat \in RatNamed(PlayerAfter(r), rat_id) : rat.on_rocket
                /\ \A rat_id \in Boarding(moves) :
                      \E k \in 1..Len(r.events) :
                          r.events[k] = create_on_rocket_event(CurrentId, rat_id)
                /\ \A k \in 1..Len(before) : after[k].rat_id = before[k].rat_id
                /\ IF Len(before) < config.max_rats
                   THEN /\ Len(after) = Len(before) + 1
                        /\ after[Len(after)].owner_id = CurrentId
                        /\ after[Len(after)].space_index = board.start_index
                        /\ ~after[Len(after)].on_rocket
                        /\ \A k \in 1..Len(before) :
                              after[Len(after)].rat_id # before[k].rat_id
                        /\ Cardinality(gained) = 1
                   ELSE /\ Len(after) = Len(before)
                        /\ gained = {}
                /\ \A i \in 1..Len(players) :
                      i # current_player + 1 =>
                          r.state.players[i].rats = players[i].rats

\* a player with max_rats rats, three of them on the rocket, has just put
\* a rat on the rocket and gained none; the Move before gained one
C21_Witness ==
    /\ AfterAccepted
    /\ LastEntry.action.type = "MOVE"
    /\ \E i \in 1..Len(players) :
          /\ Len(players[i].rats) = config.max_rats
          /\ rats_on_rocket_count(players[i]) = 3
          /\ \E k \in 1..Len(returned) : returned[k].type = "ON_ROCKET"
          /\ \A k \in 1..Len(returned) : returned[k].type # "NEW_RAT_GAINED"

\* the game-ended events among the events the last call returned
GameEnded ==
    IF returned = None THEN {}
    ELSE {returned[k] : k \in {n \in 1..Len(returned) :
                                  returned[n].type = "GAME_ENDED"}}

\* the parts in a fixed order, to add up the scores of the built ones
PartList == <<"NOSE", "TANK", "ENGINE", "FIN_A", "FIN_B">>

\* the final score the rules give a player
FinalScore(player) ==
    player.score
      + (IF config.scoring_rules.rocket_parts
         THEN SumSeq([k \in 1..Len(PartList) |->
                         IF PartList[k] \in player.built_parts
                         THEN config.rocket_part_scores[PartList[k]] ELSE 0])
         ELSE 0)
      + (IF config.scoring_rules.bottlecaps > 0
         THEN player.inv.bottlecaps * config.scoring_rules.bottlecaps ELSE 0)
      + (IF config.scoring_rules.lightbulb_track
         THEN 2 * player.tracks.lightbulb ELSE 0)
      + (IF config.scoring_rules.remaining_resources
         THEN (player.inv.res["CHEESE"] + player.inv.res["TIN_CAN"]
                 + player.inv.res["SODA"] + player.inv.res["LIGHTBULB"]
                 + player.inv.res["BOTTLECAP"]) \div 2
         ELSE 0)

\* C22: the game-ended event an accepted action returns gives every player,
\* and no one else, its final score: the accumulated score, plus the
\* immediate scores of its built parts when rocket_parts is on, plus
\* bottlecaps times the multiplier when that is above 0, plus twice its
\* track level when lightbulb_track is on, plus its resources left divided
\* by 2, rounded down, when remaining_resources is on.
C22_FinalScoreIsTheSumOfItsParts ==
    \A e \in GameEnded :
        /\ Len(e.payload.final_scores) = Len(players)
        /\ \A i \in 1..Len(players) :
              e.payload.final_scores[i] =
                  <<players[i].player_id, FinalScore(players[i])>>

\* the game has just ended with a player who has points, a built part, a
\* bottlecap, a track level and an odd number of resources left
C22_Witness ==
    /\ GameEnded # {}
    /\ \E i \in 1..Len(players) :
          /\ players[i].score > 0
          /\ players[i].built_parts # {}
          /\ players[i].inv.bottlecaps > 0
          /\ players[i].tracks.lightbulb > 0
          /\ total_resources(players[i].inv) = 3
          /\ config.scoring_rules.remaining_resources

\* the players, by position, with the highest final score
TopScorers ==
    {i \in 1..Len(players) :
        \A j \in 1..Len(players) : FinalScore(players[j]) <= FinalScore(players[i])}

\* the top scorers no other top scorer has more rats on the rocket than
TopScorersMostAboard ==
    {i \in TopScorers :
        \A j \in TopScorers :
            rats_on_rocket_count(players[j]) <= rats_on_rocket_count(players[i])}

\* C23: when the game ends, winner_ids (in the state and in the game-ended
\* event) is not empty, names no player twice, and names exactly the
\* players with the highest final score that have the most rats on the
\* rocket among the players with that score; so a player with a lower
\* final score is never a winner.
C23_WinnersAreTopScorersMostAboard ==
    \A e \in GameEnded :
        /\ winner_ids = e.payload.winner_ids
        /\ winner_ids # <<>>
        /\ \A a, b \in 1..Len(winner_ids) : winner_ids[a] = winner_ids[b] => a = b
        /\ Range(winner_ids) = {players[i].player_id : i \in TopScorersMostAboard}
        /\ \A i \in 1..Len(players) :
              players[i].player_id \in Range(winner_ids) => i \in TopScorers

\* the game has just ended with two players on the highest score, above 0,
\* of which the one with more rats on the rocket is the only winner
C23_Witness ==
    /\ GameEnded # {}
    /\ Cardinality(TopScorers) = 2
    /\ Cardinality(TopScorersMostAboard) = 1
    /\ Len(winner_ids) = 1
    /\ \A i \in TopScorers : FinalScore(players[i]) > 0

\* the game has just ended with two winners
CompleteTie ==
    /\ GameEnded # {}
    /\ Len(winner_ids) = 2

\* the game has just ended and the player with the most rats on the rocket
\* is not a winner
MostAboardLoses ==
    /\ GameEnded # {}
    /\ \E i \in 1..Len(players) :
          /\ rats_on_rocket_count(players[i]) = 4
          /\ players[i].player_id \notin Range(winner_ids)

\* the outcome of an apply call holds the game-ended event
EndsGame(r) ==
    /\ r.raised = None
    /\ \E k \in 1..Len(r.events) : r.events[k].type = "GAME_ENDED"

\* C24 as stated: an accepted Move of the current player that triggers the
\* endgame adds exactly two history entries, first the entry of the Move
\* and then, last in history, the GAME_END entry.
C24_ActionEntryThenGameEnd ==
    \A moves \in AcceptedOnceMoves :
        LET r == apply(GameState, create_move_action(moves), CurrentId, config)
            n == Len(history)
        IN  EndsGame(r) =>
                /\ Len(r.state.history) = n + 2
                /\ SubSeq(r.state.history, 1, n) = history
                /\ r.state.history[n + 1].action.type = "MOVE"
                /\ r.state.history[n + 1].action.payload.moves = moves
                /\ r.state.history[n + 2].action.type = "GAME_END"

\* what the code does: the GAME_END entry comes first and the entry of the
\* triggering Move is the last entry of history
GameEndThenActionEntry ==
    \A moves \in AcceptedOnceMoves :
        LET r == apply(GameState, create_move_action(moves), CurrentId, config)
            n == Len(history)
        IN  EndsGame(r) =>
                /\ Len(r.state.history) = n + 2
                /\ SubSeq(r.state.history, 1, n) = history
                /\ r.state.history[n + 1].action.type = "GAME_END"
                /\ r.state.history[n + 2].action.type = "MOVE"
                /\ r.state.history[n + 2].action.payload.moves = moves
                /\ r.state.history[n + 2].events = r.events

\* what one call adds to the history
Appends(actor_id, action) ==
    LET r == apply(GameState, action, actor_id, config)
        n == Len(history)
    IN  /\ Len(r.state.history) >= n
        /\ SubSeq(r.state.history, 1, n) = history
        /\ (r.raised = None /\ ~EndsGame(r)) =>
              /\ Len(r.state.history) = n + 1
              /\ r.state.history[n + 1].action.type = action.type
              /\ r.state.history[n + 1].action.payload = action.payload
              /\ r.state.history[n + 1].action.actor = actor_id
              /\ r.state.history[n + 1].events = r.events
        /\ r.raised # None => r.state.history = history

----------------------------------------------------------------------------
(* models.py: GameState.to_dict and GameState.from_dict.  Enum members are *)
(* written as their values, which is how the model holds them already; the *)
(* player names, phase and rng_seed, which no call changes, are left out.  *)
(* built_parts is a Python set: to_dict lists it in the set's iteration    *)
(* order, which depends on the hashes of the process and on the order the  *)
(* parts were added in, so the encoding is one of several.                 *)

\* the lists a set can be iterated as
Listings(S) ==
    {f \in [1..Cardinality(S) -> S] : \A p \in S : \E k \in DOMAIN f : f[k] = p}

\* one iteration order for the built_parts of each player
Iterations(state) ==
    {it \in [1..Len(state.players) ->
                UNION {Listings(state.players[i].built_parts) :
                          i \in 1..Len(state.players)}] :
        \A i \in 1..Len(state.players) :
            it[i] \in Listings(state.players[i].built_parts)}

\* to_dict, with the sets iterated as iteration says
to_dict(state, iteration) ==
    [board |->
        [spaces |-> [k \in 1..Cardinality(DOMAIN state.board.spaces) |->
                        state.board.spaces[k - 1]],
         start_index |-> state.board.start_index,
         launch_index |-> state.board.launch_index,
         shortcuts |-> state.board.shortcuts],
     players |->
        [i \in 1..Len(state.players) |->
            [player_id |-> state.players[i].player_id,
             rats |-> state.players[i].rats,
             inventory |-> [capacity |-> state.players[i].inv.capacity,
                            resources |-> state.players[i].inv.res,
                            x2_active |-> state.players[i].inv.x2_active,
                            bottlecaps |-> state.players[i].inv.bottlecaps],
             tracks |-> state.players[i].tracks,
             score |-> state.players[i].score,
             built_parts |-> iteration[i]]],
     rocket |-> [parts |-> state.rocket],
     current_player |-> state.current_player,
     round |-> state.round,
     history |-> state.history,
     game_over |-> state.game_over,
     winner_ids |-> state.winner_ids]

\* the encodings to_dict can return for a state
to_dicts(state) == {to_dict(state, it) : it \in Iterations(state)}

from_dict(data) ==
    [board |->
        [spaces |-> [i \in 0..(Len(data.board.spaces) - 1) |->
                        data.board.spaces[i + 1]],
         start_index |-> data.board.start_index,
         launch_index |-> data.board.launch_index,
         shortcuts |-> data.board.shortcuts],
     players |->
        [i \in 1..Len(data.players) |->
            [player_id |-> data.players[i].player_id,
             rats |-> data.players[i].rats,
             inv |-> [capacity |-> data.players[i].inventory.capacity,
                      res |-> data.players[i].inventory.resources,
                      x2_active |-> data.players[i].inventory.x2_active,
                      bottlecaps |-> data.players[i].inventory.bottlecaps],
             tracks |-> data.players[i].tracks,
             score |-> data.players[i].score,
             built_parts |-> Range(data.players[i].built_parts)]],
     rocket |-> data.rocket.parts,
     current_player |-> data.current_player,
     round |-> data.round,
     history |-> data.history,
     game_over |-> data.game_over,
     winner_ids |-> data.winner_ids]

\* C26 as stated: whatever encoding to_dict returns for the state, decoding
\* it and encoding the result again returns the same encoding, built parts
\* included.
C26_RoundTripSameEncoding ==
    \A d \in to_dicts(GameState) :
        \A again \in to_dicts(from_dict(d)) : again = d

\* an encoding with the built_parts lists taken as sets
PartsAsSets(d) ==
    [d EXCEPT !.players =
        [i \in 1..Len(d.players) |->
            [d.players[i] EXCEPT !.built_parts = Range(@)]]]

\* what the code does: decoding an encoding gives the state back, and the
\* second encoding equals the first up to the order of the built parts
RoundTripUpToPartOrder ==
    \A d \in to_dicts(GameState) :
        /\ from_dict(d) = GameState
        /\ \A again \in to_dicts(from_dict(d)) : PartsAsSets(again) = PartsAsSets(d)

\* a player has built two parts
TwoPartsBuilt ==
    \E i \in 1..Len(players) : Cardinality(players[i].built_parts) >= 2

----------------------------------------------------------------------------
(* The validator's pre-checks and the Moves it accepts. *)

PreCheckReasons ==
    {"Player not found", "It's not that player's turn", "Game is already over"}

\* the reason the first failing pre-check gives, None when all three pass
FirstFailingPreCheck(actor_id) ==
    IF \A i \in 1..Len(players) : players[i].player_id # actor_id
        THEN "Player not found"
    ELSE IF players[current_player + 1].player_id # actor_id
        THEN "It's not that player's turn"
    ELSE IF game_over THEN "Game is already over"
    ELSE None

\* C27: the validator checks, in this order, that the actor exists, that
\* the actor is the current player and that the game is not over, and the
\* first check that fails gives the reason, whatever the action and
\* whatever the later checks would say: an unknown actor id is 'not found'
\* and a known actor out of turn is 'not your turn', also when the game is
\* over; a call that passes the three gets none of their reasons.
C27_PreChecksInOrder ==
    ForAllCalls(LAMBDA actor_id, action :
        LET v == validate(GameState, action, actor_id, config)
        IN  IF FirstFailingPreCheck(actor_id) # None
            THEN /\ ~v.is_valid
                 /\ v.error_msg = FirstFailingPreCheck(actor_id)
            ELSE v.is_valid \/ v.error_msg \notin PreCheckReasons)

\* the game of two is over with player_1 to move, so that a call by
\* player_2 or by player_3 fails two pre-checks at once; a call was rejected
C27_Witness ==
    /\ game_over
    /\ Len(players) = 2
    /\ CurrentId = "player_1"
    /\ raised = "ValueError"
    /\ returned = None

\* the Moves of the input sets the validator accepts from the current player
AcceptedInputMoves ==
    {moves \in MoveInputs \cup MoveInputsEnd :
        validate(GameState, create_move_action(moves), CurrentId, config).is_valid}

\* every rat of the Move stands, in the state the call left, on the landing
\* index the validator derived for it
StandsWhereValidated(moves) ==
    LET v == validate(GameState, create_move_action(moves), CurrentId, config)
        r == apply(GameState, create_move_action(moves), CurrentId, config)
    IN  /\ r.raised = None
        /\ \A i \in 1..Len(moves) :
              /\ v.derived_data.landing_positions[i][1] = moves[i][1]
              /\ \A rat \in RatNamed(PlayerAfter(r), moves[i][1]) :
                    rat.space_index = v.derived_data.landing_positions[i][2]

\* C28 as stated: after every accepted Move, each rat named in it stands on
\* the landing index the validator derived for it, also when the Move names
\* a rat more than once.
C28_RatsStandWhereValidated ==
    \A moves \in AcceptedInputMoves : StandsWhereValidated(moves)

\* what the code does: the rats of an accepted Move that names each rat
\* once stand where the validator derived
RatsNamedOnceStandWhereValidated ==
    \A moves \in AcceptedOnceMoves : StandsWhereValidated(moves)

\* the validator accepts a Move of the current player that names a rat twice
TwiceNamedAccepted ==
    AcceptedInputMoves \ AcceptedOnceMoves # {}

\* C29 as stated: in every reachable state, two different on-board rats, of
\* one player or of two, stand on the same space only on the start index.
C29_OneRatPerSpace ==
    \A a, b \in BoardRats :
        (a.rat_id # b.rat_id /\ a.space_index = b.space_index) =>
            a.space_index = board.start_index

----------------------------------------------------------------------------
(* The rocket parts and the end of the game. *)

\* the built parts of all players, counted per player
TotalBuiltParts ==
    SumSeq([i \in 1..Len(players) |-> Cardinality(players[i].built_parts)])

\* the triggers named by the GAME_END entries of the history
TriggersFired ==
    {history[k].action.payload.trigger :
        k \in {n \in 1..Len(history) : history[n].action.type = "GAME_END"}}

\* C30: in every reachable state the players' built parts total at most 5,
\* one per part of the rocket and each part with its one builder, so the
\* eighth_scoring_marker trigger has not fired; a game that is over ended
\* through the fourth_rat_on_rocket trigger, once, with a player having 4
\* rats on the rocket.  The current player's BuildRocket of a part that has
\* a builder is rejected and changes nothing.
C30_OnlyTheFourthRatEndsTheGame ==
    /\ TotalBuiltParts <= 5
    /\ TotalBuiltParts = Cardinality({part \in RocketPart : rocket[part] # None})
    /\ "eighth_scoring_marker" \notin TriggersFired
    /\ game_over <=> TriggersFired # {}
    /\ game_over => /\ TriggersFired = {"fourth_rat_on_rocket"}
                    /\ FourthRatOnRocket
    /\ \A part \in RocketPart :
          LET r == apply(GameState, create_build_rocket_action(part),
                         CurrentId, config)
          IN  rocket[part] # None =>
                  /\ r.raised = "ValueError"
                  /\ ~game_over =>
                        r.error_msg = InvalidAction("Rocket part is already built")
                  /\ r.state = GameState

\* all five parts are built, by two players, the game goes on, and the
\* player to move holds the cost of a part another player built
C30_Witness ==
    /\ TotalBuiltParts = 5
    /\ \A part \in RocketPart : rocket[part] # None
    /\ ~game_over
    /\ \E part \in RocketPart :
          /\ rocket[part] # CurrentId
          /\ Holds(CurrentInv, config.rocket_part_costs[part])

----------------------------------------------------------------------------
(* The two triggers at once, and what an ended game keeps. *)

\* C31: when a player has at least 4 rats on the rocket and the built
\* parts total at least 8 in a game not yet over, check_and_trigger_endgame
\* ends the game with the trigger fourth_rat_on_rocket, in the event it
\* returns and in the one GAME_END entry it appends, and a second call
\* returns nothing and changes nothing.
C31_FourthRatHasPriority ==
    (FourthRatOnRocket /\ EighthPartBuilt /\ ~game_over) =>
        LET e == check_and_trigger_endgame(GameState, config)
            again == check_and_trigger_endgame(e.state, config)
        IN  /\ e.state.game_over
            /\ Len(e.results) = 1
            /\ e.results[1].type = "GAME_ENDED"
            /\ e.results[1].payload.trigger = "fourth_rat_on_rocket"
            /\ e.state.history =
                  Append(history,
                         [action |-> [type |-> "GAME_END",
                                      payload |-> [trigger |-> "fourth_rat_on_rocket"],
                                      actor |-> "system"],
                          events |-> e.results,
                          derived_data |-> <<>>])
            /\ again.results = <<>>
            /\ again.state = e.state

\* a game in which a player has 4 rats on the rocket and 8 or more parts
\* are built has been ended by a call, and a later call returned nothing
C31_Witness ==
    /\ FourthRatOnRocket
    /\ EighthPartBuilt
    /\ game_over
    /\ TriggersFired = {"fourth_rat_on_rocket"}
    /\ Len(history) = 1
    /\ returned = <<>>

\* the end of the game as a state records it: game_over goes with a set
\* winner_ids, a non-empty list of ids of players of the game, and with the
\* one GAME_END entry of the history
EndRecorded(over, winners, entries) ==
    LET game_ends == {k \in 1..Len(entries) : entries[k].action.type = "GAME_END"}
    IN  /\ over <=> winners # None
        /\ over =>
              /\ winners # <<>>
              /\ \A k \in 1..Len(winners) :
                    \E i \in 1..Len(players) : players[i].player_id = winners[k]
        /\ Cardinality(game_ends) <= 1
        /\ over <=> game_ends # {}

\* C32: before and after every step the end of the game is recorded as
\* above (game_over exactly with winner_ids set and exactly with a GAME_END
\* entry, never two of them), and a step from a state where the game is
\* over leaves game_over true and winner_ids as it was.
C32_GameOverIsFinal ==
    [][/\ EndRecorded(game_over, winner_ids, history)
       /\ EndRecorded(game_over', winner_ids', history')
       /\ game_over => (game_over' /\ winner_ids' = winner_ids)
      ]_vars

\* the game is over, and a call made after its end was rejected
C32_Witness ==
    /\ game_over
    /\ winner_ids # None
    /\ raised = "ValueError"
    /\ returned = None

----------------------------------------------------------------------------
(* What a step leaves alone. *)

\* the step is a call that returned normally: it appended the entry of the
\* action it applied, last
AcceptedStep == raised' = None /\ Len(history') > Len(history)

\* the entry of the action an accepted step applied
AppliedEntry == history'[Len(history')]

\* the players other than the one at hand are, in the state an apply call
\* left, exactly as they are now
OthersUntouched(r) ==
    \A i \in 1..Len(players) :
        i # current_player + 1 => r.state.players[i] = players[i]

\* an accepted call of the current player leaves the other players alone
LeavesOthers(action) ==
    LET r == apply(GameState, action, CurrentId, config)
    IN  r.raised = None => OthersUntouched(r)

\* C33: in every reachable state, each Move, Buy, Steal, BuildRocket,
\* DonateCheese and EndTurn that is accepted from the current player leaves
\* every other player (rats, inventory, tracks, score, built parts) exactly
\* as it was; and every step that is an accepted action of a player leaves
\* every other player as it was.
C33_OtherPlayersUntouched ==
    /\ [](/\ \A moves \in MoveInputsMarket : LeavesOthers(create_move_action(moves))
          /\ \A shop_kind \in ShopInputsMarket, item \in ItemInputsMarket,
                payer_rat_id \in PayerInputsMarket :
                /\ LeavesOthers(create_buy_action(shop_kind, item, payer_rat_id))
                /\ LeavesOthers(create_steal_action(shop_kind, item, payer_rat_id))
          /\ \A part \in RocketPart : LeavesOthers(create_build_rocket_action(part))
          /\ \A amount \in DonateInputs :
                LeavesOthers(create_donate_cheese_action(amount))
          /\ LeavesOthers(create_end_turn_action))
    /\ [][AcceptedStep =>
             \A i \in 1..Len(players) :
                 players[i].player_id # AppliedEntry.action.actor =>
                     players'[i] = players[i]
         ]_vars

\* a Steal was accepted while the other player holds resources, score or
\* built parts of their own
C33_Witness ==
    /\ AfterAccepted
    /\ LastEntry.action.type = "STEAL"
    /\ \A i \in 1..Len(players) :
          players[i].player_id # LastEntry.action.actor =>
              \/ total_resources(players[i].inv) > 0
              \/ players[i].score > 0
              \/ players[i].built_parts # {}

\* no player's score is lower in the state an apply call left
ScoresKept(r) ==
    \A i \in 1..Len(players) : r.state.players[i].score >= players[i].score

\* C34: no call of apply, accepted or rejected, by any actor lowers the
\* score of any player, and no step does.
C34_ScoreNeverDecreases ==
    /\ [](ForAllCalls(LAMBDA actor_id, action :
             ScoresKept(apply(GameState, action, actor_id, config))))
    /\ [][\A i \in 1..Len(players) : players'[i].score >= players[i].score]_vars

\* a player who had points has donated cheese and has more points than the
\* donation's reward
C34_Witness ==
    /\ AfterAccepted
    /\ LastEntry.action.type = "DONATE_CHEESE"
    /\ history[Len(history) - 1].action.type # "DONATE_CHEESE"
    /\ \E i \in 1..Len(players) :
          /\ players[i].player_id = LastEntry.action.actor
          /\ players[i].score >
                config.donate_rewards[LastEntry.action.payload.amount]

\* the action is a Buy or a Steal of 'capacity' at the mole shop
BuysCapacity(action) ==
    \/ /\ action.type = "BUY"
       /\ action.payload.shop_kind = "SHOP_MOLE"
       /\ action.payload.item = "capacity"
    \/ /\ action.type = "STEAL"
       /\ action.payload.shop_kind = "SHOP_MOLE"
       /\ action.payload.target_item = "capacity"

\* in the state the call left, the capacity of the actor is one more when
\* the call was an accepted purchase or theft of capacity, whose rat stood
\* on a mole shop, and every other capacity is what it was
CapacityFollows(actor_id, action) ==
    LET r == apply(GameState, action, actor_id, config)
        bought == r.raised = None /\ BuysCapacity(action)
    IN  /\ \A i \in 1..Len(players) :
              r.state.players[i].inv.capacity =
                  players[i].inv.capacity +
                      (IF bought /\ players[i].player_id = actor_id THEN 1 ELSE 0)
        /\ bought =>
              \E rat \in RatOf(actor_id, action.payload.payer_rat_id) :
                  /\ ~rat.on_rocket
                  /\ board.spaces[rat.space_index].kind = "SHOP_MOLE"

\* C35: from every reachable state, an accepted Buy or Steal of 'capacity'
\* at the mole shop, by a rat standing on a mole shop, raises the actor's
\* capacity by exactly 1, and every other call (any actor, any kind,
\* accepted or rejected) leaves every capacity as it was; no step lowers a
\* capacity or raises one by more than 1.
C35_CapacityGrowsOnlyAtTheMole ==
    /\ [](\A actor_id \in Actors :
             /\ \A moves \in MoveInputsMarket :
                   CapacityFollows(actor_id, create_move_action(moves))
             /\ \A shop_kind \in ShopInputsMarket, item \in ItemInputsMarket,
                   payer_rat_id \in PayerInputsMarket :
                   /\ CapacityFollows(actor_id,
                          create_buy_action(shop_kind, item, payer_rat_id))
                   /\ CapacityFollows(actor_id,
                          create_steal_action(shop_kind, item, payer_rat_id))
             /\ \A part \in RocketPart :
                   CapacityFollows(actor_id, create_build_rocket_action(part))
             /\ \A amount \in DonateInputs :
                   CapacityFollows(actor_id, create_donate_cheese_action(amount))
             /\ CapacityFollows(actor_id, create_end_turn_action))
    /\ [][\A i \in 1..Len(players) :
             /\ players'[i].inv.capacity >= players[i].inv.capacity
             /\ players'[i].inv.capacity <= players[i].inv.capacity + 1
         ]_vars

\* a player has taken capacity at the mole shop for the second time: two
\* slots more than the starting capacity
C35_Witness ==
    /\ AfterAccepted
    /\ BuysCapacity(LastEntry.action)
    /\ \E i \in 1..Len(players) :
          players[i].inv.capacity = config.starting_inventory_capacity + 2

----------------------------------------------------------------------------
(* Rats on the rocket. *)

\* the ids of the rats on the rocket
Aboard == UNION {{players[i].rats[k].rat_id :
                     k \in {n \in 1..Len(players[i].rats) : players[i].rats[n].on_rocket}}
                 : i \in 1..Len(players)}

\* the action names a rat that is on the rocket: as a rat to move, as the
\* paying rat or as the thief
NamesAboard(action) ==
    \/ /\ action.type = "MOVE"
       /\ \E k \in 1..Len(action.payload.moves) :
             action.payload.moves[k][1] \in Aboard
    \/ /\ action.type \in {"BUY", "STEAL"}
       /\ action.payload.payer_rat_id \in Aboard

\* every rat of rats_before is in rats_after at its place in the list, and
\* one that was on the rocket is there unchanged
RatsKept(rats_before, rats_after) ==
    /\ Len(rats_after) >= Len(rats_before)
    /\ \A k \in 1..Len(rats_before) :
          /\ rats_after[k].rat_id = rats_before[k].rat_id
          /\ rats_after[k].owner_id = rats_before[k].owner_id
          /\ rats_before[k].on_rocket => rats_after[k] = rats_before[k]

\* C36: from every reachable state, a call of any kind by any actor keeps
\* every rat of every player, the rats on the rocket with on_rocket true and
\* their position as it was, so that no player's count of rats on the
\* rocket goes down, and a Move, Buy or Steal that names a rat on the
\* rocket is rejected; every step keeps the rats in the same way.
C36_BoardingIsIrreversible ==
    /\ [](ForAllCalls(LAMBDA actor_id, action :
             LET r == apply(GameState, action, actor_id, config)
             IN  /\ \A i \in 1..Len(players) :
                       /\ RatsKept(players[i].rats, r.state.players[i].rats)
                       /\ rats_on_rocket_count(r.state.players[i]) >=
                             rats_on_rocket_count(players[i])
                 /\ NamesAboard(action) =>
                       /\ r.raised = "ValueError"
                       /\ r.state = GameState))
    /\ [][\A i \in 1..Len(players) :
             /\ RatsKept(players[i].rats, players'[i].rats)
             /\ rats_on_rocket_count(players'[i]) >= rats_on_rocket_count(players[i])
         ]_vars

\* a rat of the first player is on the rocket, the player has moved another
\* rat since, and a later call was rejected
C36_Witness ==
    /\ "player_1_rat_1" \in Aboard
    /\ ~game_over
    /\ current_player = 0
    /\ raised = "ValueError"
    /\ history # <<>>
    /\ LastEntry.action.type = "MOVE"
    /\ LastEntry.action.payload.moves[1][1] # "player_1_rat_1"

----------------------------------------------------------------------------
(* The turn can always be passed. *)

\* C37: in every reachable state where the game is not over, EndTurn by the
\* current player is accepted by the validator and apply returns normally
\* from it, leaving a state that differs from the present one: the turn
\* passes to the next player and the entry of the EndTurn is appended.
C37_EndTurnAlwaysAccepted ==
    ~game_over =>
        LET v == validate(GameState, create_end_turn_action, CurrentId, config)
            r == apply(GameState, create_end_turn_action, CurrentId, config)
        IN  /\ v.is_valid
            /\ r.raised = None
            /\ r.state # GameState
            /\ r.state.current_player = (current_player + 1) % Len(players)
            /\ Len(r.state.history) > Len(history)
            /\ r.state.history[Len(r.state.history)].action =
                  [type |-> "END_TURN", payload |-> <<>>, actor |-> CurrentId]

\* the game is on in its second round: both players have passed the turn
C37_Witness ==
    /\ ~game_over
    /\ round = 2
    /\ current_player = 0
    /\ AfterAccepted
    /\ LastEntry.action.type = "END_TURN"
    /\ LastEntry.action.actor = "player_2"

----------------------------------------------------------------------------
(* The lightbulb track. *)

\* the Moves of the track inputs that name each rat once and that the
\* validator accepts from the current player
AcceptedTrackMoves ==
    {moves \in MoveInputsTrack :
        /\ \A i, j \in 1..Len(moves) : moves[i][1] = moves[j][1] => i = j
        /\ validate(GameState, create_move_action(moves), CurrentId, config).is_valid}

\* the points of a level: the configured points of an 'immediate' level of
\* the table, nothing for a passive level or a level the table lacks
PointsOfLevel(level) ==
    IF level \in DOMAIN config.lightbulb_track_rewards
    THEN IF config.lightbulb_track_rewards[level].type = "immediate"
         THEN config.lightbulb_track_rewards[level].points ELSE 0
    ELSE 0

\* the track level after landing on the spaces in turn
RECURSIVE LevelAfterLandings(_, _)
LevelAfterLandings(level, spaces) ==
    IF spaces = <<>> THEN level
    ELSE IF Head(spaces).kind # "LIGHTBULB_TRACK"
        THEN LevelAfterLandings(level, Tail(spaces))
    ELSE LevelAfterLandings(level + Head(spaces).payload.track_gain, Tail(spaces))

\* the points gained by landing on the spaces in turn: those of the level
\* reached at each landing on a track space
RECURSIVE PointsOfLandings(_, _)
PointsOfLandings(level, spaces) ==
    IF spaces = <<>> THEN 0
    ELSE IF Head(spaces).kind # "LIGHTBULB_TRACK"
        THEN PointsOfLandings(level, Tail(spaces))
    ELSE PointsOfLevel(level + Head(spaces).payload.track_gain)
             + PointsOfLandings(level + Head(spaces).payload.track_gain, Tail(spaces))

\* C38: an accepted Move of the current player raises the player's
\* lightbulb track by the configured gain of each LIGHTBULB_TRACK space a
\* rat lands on, and the score by the configured points of each level so
\* reached that is an 'immediate' level of the table; a passive level
\* (level 4) and a level the table lacks add nothing, and a Move that lands
\* on no track space leaves track and score as they were.
C38_TrackGainAndImmediatePoints ==
    \A moves \in AcceptedTrackMoves :
        LET r == apply(GameState, create_move_action(moves), CurrentId, config)
            level == CurrentPlayer.tracks.lightbulb
        IN  /\ r.raised = None
            /\ PlayerAfter(r).tracks.lightbulb =
                  LevelAfterLandings(level, LandingSpaces(moves))
            /\ PlayerAfter(r).score =
                  CurrentPlayer.score + PointsOfLandings(level, LandingSpaces(moves))
            /\ \A i \in 1..Len(players) :
                  i # current_player + 1 => r.state.players[i] = players[i]

\* the level the last accepted Move left its actor on
LevelReached == players[player_index(GameState, LastEntry.action.actor)].tracks.lightbulb

\* a player stands on the passive level 4 with the 4 points of the levels
\* 1 and 3 passed on the way, the last landing having added none
C38_Witness ==
    /\ AfterAccepted
    /\ LastEntry.action.type = "MOVE"
    /\ LevelReached = 4
    /\ players[player_index(GameState, LastEntry.action.actor)].score = 4
    /\ LastEntry.events = <<>>

----------------------------------------------------------------------------
(* A call that fails the invariant check. *)

\* the entry apply appends for a call the validator accepted with v and the
\* resolver answered with res
EntryOf(actor_id, action, v, res) ==
    [action |-> [type |-> action.type, payload |-> action.payload,
                 actor |-> actor_id],
     events |-> res.events,
     derived_data |-> v.derived_data]

\* the effects of the action are in the state: the rats of a Move named
\* once stand where the validator said, the part of a BuildRocket has its
\* builder, an EndTurn has passed the turn
EffectsIn(state, actor_id, action, v) ==
    /\ (action.type = "MOVE" /\
        \A i, j \in 1..Len(action.payload.moves) :
            action.payload.moves[i][1] = action.payload.moves[j][1] => i = j) =>
          \A k \in 1..Len(v.derived_data.landing_positions) :
              \E i \in 1..Len(state.players) :
                  \E n \in 1..Len(state.players[i].rats) :
                      /\ state.players[i].rats[n].rat_id =
                            v.derived_data.landing_positions[k][1]
                      /\ state.players[i].rats[n].space_index =
                            v.derived_data.landing_positions[k][2]
                      /\ state.players[i].rats[n].space_index # board.start_index
    /\ action.type = "BUILD_ROCKET" =>
          /\ state.rocket[action.payload.part] = actor_id
          /\ rocket[action.payload.part] = None
    /\ action.type = "END_TURN" =>
          state.current_player = (current_player + 1) % Len(players)

\* a call the validator accepts and the resolver carries out, but whose
\* outcome fails the invariant check, raises ValueError with the check's
\* message and leaves the resolved state with the call's entry appended
RaisesWithoutRollback(actor_id, action) ==
    LET v == validate(GameState, action, actor_id, config)
        res == resolver_apply(GameState, action, actor_id, config)
        entry == EntryOf(actor_id, action, v, res)
        logged == [res.state EXCEPT !.history = Append(@, entry)]
        r == apply(GameState, action, actor_id, config)
    IN  (v.is_valid /\ res.exception = None /\ check_invariants(logged) # None) =>
            /\ r.raised = "ValueError"
            /\ r.error_msg = check_invariants(logged)
            /\ r.events = None
            /\ r.state = logged
            /\ r.state # GameState
            /\ Len(r.state.history) > Len(history)
            /\ r.state.history[Len(r.state.history)] = entry
            /\ EffectsIn(r.state, actor_id, action, v)

\* C39: from every state, consistent or made inconsistent before the call,
\* a call that passes validation and is resolved but leaves a state that
\* fails the invariant check makes apply raise ValueError, and the state
\* keeps the action's effects and the history entry appended for it:
\* nothing is rolled back.
C39_NoRollbackOnInvariantFailure ==
    ForAllCalls(RaisesWithoutRollback)

\* the first player holds more than the capacity written into the state,
\* and yet a Move of theirs and their EndTurn are in the history, both
\* calls having raised
C39_Witness ==
    /\ total_resources(players[1].inv) > players[1].inv.capacity
    /\ Len(history) = 2
    /\ history[1].action.type = "MOVE"
    /\ history[1].action.actor = "player_1"
    /\ history[2].action.type = "END_TURN"
    /\ current_player = 1
    /\ raised = "ValueError"
    /\ returned = None

=============================================================================
